---- MODULE Spec2Model ----
(***************************************************************************)
(* Model of the SEO article producer (src/src/App.tsx): the internal-link  *)
(* inserter, the article assembly pipeline and the CSV batch orchestrator. *)
(*                                                                         *)
(* Section HTML is modelled structurally.  A section's content is a        *)
(* sequence of blocks; a block is either a <p>...</p> fragment ("p") or    *)
(* markup outside any paragraph ("raw", e.g. a <ul> list).  A block holds  *)
(* the word counts of its sentences and the anchors (<a href=...>) it      *)
(* contains.  The words of a block are numbered 1..n in document order.    *)
(***************************************************************************)
EXTENDS Integers, Sequences, FiniteSets, TLC

(***************************************************************************)
(* Bounds of the model.                                                    *)
(***************************************************************************)
MaxSections == 3
MaxBlocks == 3
MaxArticles == 2
MaxClicks == 1

(***************************************************************************)
(* JavaScript helpers.                                                     *)
(***************************************************************************)
Min(a, b) == IF a <= b THEN a ELSE b
Max(a, b) == IF a >= b THEN a ELSE b

\* Array.prototype.slice(from, to) on 0-based indexes, end exclusive,
\* both ends clipped to the array.
Slice(s, from, to) ==
  LET a == Min(Max(from, 0), Len(s))
      b == Min(Max(to, 0), Len(s))
  IN  IF b <= a THEN << >> ELSE SubSeq(s, a + 1, b)

RECURSIVE SumSeq(_)
SumSeq(s) == IF s = << >> THEN 0 ELSE Head(s) + SumSeq(Tail(s))

Range(s) == {s[i] : i \in DOMAIN s}

(***************************************************************************)
(* Blocks, anchors and sections.                                           *)
(***************************************************************************)
NoWords == << >>
WordsOf(n) == [i \in 1..n |-> i]

\* An anchor tag.  before/text/after are the words that precede it in its
\* paragraph, its visible text and the words that follow it.  cta is the
\* index (1..3) of the call-to-action phrase of a forced anchor, else 0.
\* ext marks an anchor that the generated prose already contained.
Anchor(href, before, text, after, cta, ext) ==
  [href |-> href, before |-> before, text |-> text, after |-> after,
   cta |-> cta, ext |-> ext,
   target |-> IF ext THEN "" ELSE "_blank",
   rel |-> IF ext THEN "" ELSE "noopener noreferrer"]

ExtAnchor(n) == Anchor("ext", NoWords, Slice(WordsOf(n), 0, 1), Slice(WordsOf(n), 1, n), 0, TRUE)

Block(kind, sents, links) == [kind |-> kind, sents |-> sents, links |-> links]

\* textOnly.split(/\s+/).filter(w => w.length > 0) of a paragraph: tags are
\* stripped, so the text of an anchor the prose already had counts as words.
ParagraphWords(b) == WordsOf(SumSeq(b.sents))

\* section.content.includes('<a href=') / p.includes('<a href=')
BlockHasLink(b) == b.links # << >>
ContentHasLink(content) == \E i \in DOMAIN content : BlockHasLink(content[i])

RECURSIVE CountAnchors(_)
CountAnchors(content) ==
  IF content = << >> THEN 0
  ELSE Len(Head(content).links) + CountAnchors(Tail(content))

RECURSIVE TotalAnchors(_)
TotalAnchors(sections) ==
  IF sections = << >> THEN 0
  ELSE CountAnchors(Head(sections).content) + TotalAnchors(Tail(sections))

ParagraphIdxAll(content) == DOMAIN content

\* section.content.match(/<p>[\s\S]*?<\/p>/g): the paragraph positions.
ParagraphIdx(content) == {i \in DOMAIN content : content[i].kind = "p"}

(***************************************************************************)
(* insertInternalLinksIntoSections                                         *)
(***************************************************************************)
anchorTexts == << <<901, 902, 903, 904, 905>>,
                 <<911, 912, 913, 914, 915, 916, 917>>,
                 <<921, 922, 923, 924>> >>

PassAnchorNone(pass) == 0

PassBackNone(pass) == 0

PassMinWords(pass) == IF pass = 1 THEN 15 ELSE IF pass = 2 THEN 10 ELSE 6
PassBack(pass) == IF pass = 1 THEN 3 ELSE IF pass = 2 THEN 2 ELSE 1
PassAnchorLen(pass) == IF pass = 1 THEN 7 ELSE IF pass = 2 THEN 5 ELSE 4

\* The paragraph rebuilt by passes 1-3 as before + <a> + after.
SpliceAnchor(b, href, pass) ==
  LET words == ParagraphWords(b)
      midPoint == Len(words) \div 2
      anchorStart == Max(0, midPoint - PassBack(pass))
      anchorLength == Min(PassAnchorLen(pass), Len(words) - anchorStart)
      anchorEnd == anchorStart + anchorLength
      anchorText == Slice(words, anchorStart, anchorEnd)
      beforeAnchor == Slice(words, 0, anchorStart)
      afterAnchor == Slice(words, anchorEnd, Len(words))
  IN  Block("p", b.sents,
            << Anchor(href, beforeAnchor, anchorText, afterAnchor, 0, FALSE) >>)

\* The paragraph rebuilt by pass 4: its inner HTML, then ". Puedes <a>".
AppendAnchor(b, href, n) ==
  Block("p", b.sents,
        b.links \o << Anchor(href, ParagraphWords(b), anchorTexts[n + 1], NoWords, n + 1, FALSE) >>)

\* Does paragraph b qualify in this pass?
Qualifies(b, pass) ==
  IF pass = 4 THEN ~BlockHasLink(b)
  ELSE Len(ParagraphWords(b)) >= PassMinWords(pass)

\* The first qualifying paragraph of a section in this pass, 0 if none.
FirstQualifying(content, pass) ==
  LET q == {i \in ParagraphIdx(content) : Qualifies(content[i], pass)}
  IN  IF q = {} THEN 0 ELSE CHOOSE i \in q : \A j \in q : i <= j

SectionEligibleAny(section, insertedCount, pass) ==
  insertedCount < 3 /\ section.content # << >>

\* Does the pass look at this section at all?
SectionEligible(section, insertedCount, pass) ==
  /\ insertedCount < 3
  /\ section.content # << >>
  /\ (pass \in {2, 3} => ~ContentHasLink(section.content))

\* One section of one pass: the callback of sections.map.
PassSection(section, links, insertedCount, pass) ==
  LET i == IF SectionEligible(section, insertedCount, pass)
           THEN FirstQualifying(section.content, pass) ELSE 0
  IN  IF i = 0 THEN [section |-> section, count |-> insertedCount]
      ELSE [section |->
              [section EXCEPT !.content[i] =
                 IF pass = 4 THEN AppendAnchor(@, links[insertedCount + 1], insertedCount)
                 ELSE SpliceAnchor(@, links[insertedCount + 1], pass)],
            count |-> insertedCount + 1]

\* One pass over all sections in order, sharing insertedCount.
RECURSIVE PassOver(_, _, _, _, _)
PassOver(done, todo, links, insertedCount, pass) ==
  IF todo = << >> THEN [sections |-> done, count |-> insertedCount]
  ELSE LET r == PassSection(Head(todo), links, insertedCount, pass)
       IN  PassOver(Append(done, r.section), Tail(todo), links, r.count, pass)

\* Passes 2-4 run only while fewer than 3 links are placed.
RunPass(st, links, pass) ==
  IF pass > 1 /\ st.count >= 3 THEN st
  ELSE PassOver(<< >>, st.sections, links, st.count, pass)

InsertResultSame(sections, links) ==
  LET linksToInsert == <<links[1], links[1], links[1]>>
      p1 == RunPass([sections |-> sections, count |-> 0], linksToInsert, 1)
      p2 == RunPass(p1, linksToInsert, 2)
      p3 == RunPass(p2, linksToInsert, 3)
  IN  RunPass(p3, linksToInsert, 4)

InsertResult(sections, links) ==
  IF Len(links) < 3 THEN [sections |-> sections, count |-> 0]
  ELSE LET linksToInsert == Slice(links, 0, 3)
           p1 == RunPass([sections |-> sections, count |-> 0], linksToInsert, 1)
           p2 == RunPass(p1, linksToInsert, 2)
           p3 == RunPass(p2, linksToInsert, 3)
       IN  RunPass(p3, linksToInsert, 4)

LinkedSectionsOnly(sections, links) ==
  SelectSeq(InsertResult(sections, links).sections, LAMBDA s : ContentHasLink(s.content))

insertInternalLinksIntoSections(sections, links) == InsertResult(sections, links).sections

generateClientInternalLinks(domain) ==
  << <<domain, "/">>, <<domain, "/blog">>, <<domain, "/contacto">> >>

(***************************************************************************)
(* Inputs of the link inserter.                                            *)
(***************************************************************************)
ParaWordCounts == {0, 1, 6, 10, 15}

Paragraph(n, ext) ==
  Block("p", IF n = 0 THEN << >> ELSE <<n>>, IF ext THEN <<ExtAnchor(n)>> ELSE << >>)

InputBlocks ==
  {Paragraph(n, FALSE) : n \in ParaWordCounts}
    \cup {Paragraph(16, TRUE)}
    \cup {Block("raw", <<4>>, << >>), Block("raw", <<4>>, <<ExtAnchor(4)>>)}

Section(id, content) ==
  [id |-> id, title |-> id, content |-> content, keywords |-> <<id>>]

\* All ways to cut a sequence of blocks into k consecutive (possibly empty)
\* section contents.
RECURSIVE Cuts(_, _)
Cuts(blocks, k) ==
  IF k = 1 THEN {<<blocks>>}
  ELSE UNION {{<<SubSeq(blocks, 1, n)>> \o rest :
                 rest \in Cuts(SubSeq(blocks, n + 1, Len(blocks)), k - 1)} :
              n \in 0..Len(blocks)}

TestLinks == generateClientInternalLinks("site")

(***************************************************************************)
(* improveReadability, steps 1 and 2, on the sentence structure of the     *)
(* paragraphs.  The prose drawn below contains none of the connector       *)
(* phrases or table words of steps 3 and 4 and is already normalised, so   *)
(* steps 3-6 leave it as it is.                                            *)
(***************************************************************************)
RECURSIVE SplitLongSentences(_)
SplitLongSentences(sents) ==
  IF sents = << >> THEN << >>
  ELSE LET n == Head(sents)
           midPoint == n \div 2
       IN  (IF n > 20 THEN <<midPoint, n - midPoint>> ELSE <<n>>)
             \o SplitLongSentences(Tail(sents))

\* Step 2: a paragraph of more than 4 sentences becomes two paragraphs.
SplitParagraph(b) ==
  LET sentences == SelectSeq(b.sents, LAMBDA n : n > 0)
      k == Len(sentences)
      mid == (k + 1) \div 2
  IN  IF k > 4
      THEN << Block("p", Slice(sentences, 0, mid), b.links),
              Block("p", Slice(sentences, mid, k), << >>) >>
      ELSE << b >>

RECURSIVE improveReadability(_)
improveReadability(html) ==
  IF html = << >> THEN html
  ELSE LET b == Head(html)
       IN  (IF b.kind = "p"
            THEN SplitParagraph(Block("p", SplitLongSentences(b.sents), b.links))
            ELSE << b >>) \o improveReadability(Tail(html))

(***************************************************************************)
(* The collaborators' answers.                                             *)
(***************************************************************************)
Para(sents) == Block("p", sents, << >>)

\* generateSectionContent: the prose the backend may return.  generateText
\* throws on an empty answer, so the prose is never the empty string.
SectionProse ==
  { << Para(<<16>>), Para(<<3, 3, 3, 3, 3, 3>>) >>,
    << Block("raw", <<4>>, << >>) >> }

\* Titles are token sequences; concatenation appends tokens.
OutlineTitles == { <<"T1">> }
NoTitle == << >>

titleSuffixes == << ": Guía completa", ": Todo lo que debes saber",
                    ": Información esencial", ": Aspectos clave", " en detalle" >>

titleVariations(kw) ==
  << <<"Guía completa sobre ", kw>>, <<kw, ": Todo lo que necesitas saber">>,
     <<"Descubre ", kw, ": Guía práctica">>, <<kw, " explicado: Información esencial">>,
     <<"Conoce todo sobre ", kw>>, <<kw, ": Guía definitiva">> >>

variationPrompts == << "on-page", "comprehensive-guide", "quick-tips", "deep-dive" >>

AccountNames == << "acc1", "acc2", "acc3", "acc4", "acc5" >>
NoUuid == ""
NoWebsite == "null"
SiteOf(uuid) == "https://" \o uuid \o ".com"

(***************************************************************************)
(* CSV files.  A raw row holds the cell texts of a line; task_count is the *)
(* text of its cell.                                                       *)
(***************************************************************************)
RawRow(uuid, kw, count, clickup, prodline) ==
  [account_uuid |-> uuid, kw |-> kw, task_count |-> count,
   task_clickup_ids |-> clickup, task_prodline_ids |-> prodline]

NaN == [nan |-> TRUE, val |-> 0]
Num(n) == [nan |-> FALSE, val |-> n]

\* parseInt(taskCountStr, 10) on the cell texts used here.
parseInt(str) ==
  CASE str = "1" -> Num(1)
    [] str = "2" -> Num(2)
    [] str = "3" -> Num(3)
    [] str = "4" -> Num(4)
    [] str = "0" -> Num(0)
    [] str = "-2" -> Num(0 - 2)
    [] OTHER -> NaN

CountText(n) == CASE n = 1 -> "1" [] n = 2 -> "2" [] n = 3 -> "3" [] OTHER -> "4"

\* split(','), trim, drop the empty entries.
SplitList(cells) == SelectSeq(cells, LAMBDA c : c # "")

TaskIds(r, n) == [j \in 1..n |-> "cu" \o CountText(r) \o CountText(j)]
ProdIds(r, n) == [j \in 1..n |-> "pl" \o CountText(r) \o CountText(j)]

requiredColumns == {"account_uuid", "kw", "task_count", "task_clickup_ids"}

ParseRowAsRead(raw) ==
  [raw EXCEPT !.task_count = parseInt(IF @ = "" THEN "1" ELSE @).val]

\* The rows a file yields: lines.slice(1).map(...).filter(...).
ParseRow(raw) ==
  LET taskCountStr == IF raw.task_count = "" THEN "1" ELSE raw.task_count
      taskCount == parseInt(taskCountStr)
  IN  [account_uuid |-> raw.account_uuid,
       kw |-> raw.kw,
       task_count |-> IF taskCount.nan \/ taskCount.val <= 0 THEN 1 ELSE taskCount.val,
       task_clickup_ids |-> raw.task_clickup_ids,
       task_prodline_ids |-> raw.task_prodline_ids]

ParseRows(lines) ==
  SelectSeq([i \in DOMAIN lines |-> ParseRow(lines[i])],
            LAMBDA row : row.account_uuid # "" /\ row.kw # << >>)

\* The task counts of the files drawn: r rows of c articles each, at most
\* n articles in all.
Layouts(n) ==
  UNION {{[i \in 1..r |-> c] : c \in {k \in 1..n : r * k <= n}} : r \in 1..n}

\* A well-formed file for a layout; shortIds names the rows that list one
\* tracker id fewer than articles.
FileOf(layout, shortIds) ==
  [headers |-> requiredColumns \cup {"task_prodline_ids"},
   lines |-> [r \in DOMAIN layout |->
                RawRow(AccountNames[r], <<"kw1", "kw2">>, CountText(layout[r]),
                       TaskIds(r, IF r \in shortIds THEN layout[r] - 1 ELSE layout[r]),
                       IF r = 1 THEN ProdIds(r, 1) ELSE << >>)]]

\* Files with cells the upload repairs or rejects.
OddFiles ==
  { [headers |-> {"account_uuid", "task_count", "task_clickup_ids"},
     lines |-> << RawRow("acc1", <<"kw1">>, "1", TaskIds(1, 1), << >>) >>],
    [headers |-> requiredColumns,
     lines |-> << RawRow("", <<"kw1">>, "1", TaskIds(1, 1), << >>),
                  RawRow("acc2", <<"", "">>, "abc", <<"", "cu21">>, << >>) >>],
    [headers |-> requiredColumns,
     lines |-> << RawRow("acc1", << >>, "2", << >>, << >>) >>] }

CsvFiles ==
  {FileOf(layout, {}) : layout \in Layouts(MaxArticles)}
    \cup {FileOf(<<1, 1>>, {1})}
    \cup OddFiles

(***************************************************************************)
(* State.                                                                  *)
(***************************************************************************)
VARIABLES
  \* React state of App, as last set
  step, isLoading, isPublishing, article, keywords, publishResult,
  csvRows, batchProgress, clientWebsite, accountMemory,
  \* refs
  publishedUrlsRef, totalArticlesRef, originalKeywordsRef, clientWebsiteRef,
  currentAccountRef, totalAccountsRef, currentArticleRef, isProcessingRef,
  \* the auto-advance chain: where it is suspended, the render whose state
  \* its closures captured, and its local variables
  pc, snap, loc,
  \* a handler started by an operator click while the chain runs
  mpc, mloc,
  \* collaborator calls awaiting their answer, and what was observed
  inflight, publishLog, outlineLog, titlesGiven, trackerLog, errors, alerts,
  \* one call of a function followed on its own: its input, its result
  \* and where the call stands
  fnIn, fnOut, fnPc

stateVars == <<step, isLoading, isPublishing, article, keywords, publishResult,
               csvRows, batchProgress, clientWebsite, accountMemory>>
refVars == <<publishedUrlsRef, totalArticlesRef, originalKeywordsRef, clientWebsiteRef,
             currentAccountRef, totalAccountsRef, currentArticleRef, isProcessingRef>>
chainVars == <<pc, snap, loc>>
manualVars == <<mpc, mloc>>
obsVars == <<inflight, publishLog, outlineLog, titlesGiven, trackerLog, errors, alerts>>
fnVars == <<fnIn, fnOut, fnPc>>

vars == <<stateVars, refVars, chainVars, manualVars, obsVars, fnVars>>

NoArticle == [title |-> NoTitle, sections |-> << >>, primaryKeywords |-> << >>,
              featuredImage |-> FALSE, altKeyword |-> "", tag |-> <<0, 0>>]

NoLoc == [kws |-> << >>, websiteUrl |-> NoWebsite, art |-> NoArticle, i |-> 0,
          attempt |-> 0, articleNumber |-> 0, accountUuid |-> NoUuid,
          previousTitles |-> << >>, mediaId |-> 0, newCurrentArticle |-> 0,
          row |-> 0, trow |-> 0, task |-> 0, urlIndex |-> 0, successCount |-> 0,
          prodlineCount |-> 0]

\* The locals of a handler the operator started, and the clicks made.
NoManual == [kws |-> << >>, art |-> NoArticle, articleNumber |-> 0,
             accountUuid |-> NoUuid, previousTitles |-> << >>, mediaId |-> 0,
             currentArticle |-> 0, clicks |-> 0]

InitialProgress ==
  [currentAccount |-> 0, totalAccounts |-> 0, currentArticle |-> 0,
   totalArticles |-> 0, publishedUrls |-> << >>, isComplete |-> FALSE,
   currentAccountUuid |-> NoUuid]

NoResult == [set |-> FALSE, success |-> FALSE, url |-> <<0, 0>>]
NoSnap == [batchProgress |-> InitialProgress, accountMemory |-> << >>,
           csvRows |-> << >>, keywords |-> << >>]

AppInit ==
  /\ step = "account"
  /\ isLoading = FALSE
  /\ isPublishing = FALSE
  /\ article = NoArticle
  /\ keywords = << >>
  /\ publishResult = NoResult
  /\ csvRows = << >>
  /\ batchProgress = InitialProgress
  /\ clientWebsite = NoWebsite
  /\ accountMemory = << >>
  /\ publishedUrlsRef = << >>
  /\ totalArticlesRef = 0
  /\ originalKeywordsRef = << >>
  /\ clientWebsiteRef = NoWebsite
  /\ currentAccountRef = 0
  /\ totalAccountsRef = 0
  /\ currentArticleRef = 0
  /\ isProcessingRef = FALSE
  /\ pc = "idle"
  /\ snap = NoSnap
  /\ loc = NoLoc
  /\ mpc = "idle"
  /\ mloc = NoManual
  /\ inflight = {}
  /\ publishLog = << >>
  /\ outlineLog = << >>
  /\ titlesGiven = {}
  /\ trackerLog = << >>
  /\ errors = {}
  /\ alerts = {}

FnIdle == fnIn = << >> /\ fnOut = << >> /\ fnPc = "unused"

Init == AppInit /\ FnIdle

\* The render the operator is looking at: the closures a click starts see
\* the state as last set.
Render == [batchProgress |-> batchProgress, accountMemory |-> accountMemory,
           csvRows |-> csvRows, keywords |-> keywords]

\* The full-screen overlay covers every button while it is shown.
OverlayShown == isLoading \/ isPublishing

(***************************************************************************)
(* handleCsvUpload                                                         *)
(***************************************************************************)
\* The checks of the file and the rows it leaves in csvRows.
ReadCsv(file) ==
  LET missingColumns == requiredColumns \ file.headers
      rows == ParseRows(file.lines)
  IN  IF Len(file.lines) < 1
      THEN alerts' = alerts \cup {"csv-empty"} /\ UNCHANGED csvRows
      ELSE IF missingColumns # {}
      THEN alerts' = alerts \cup {"csv-columns"} /\ UNCHANGED csvRows
      ELSE IF rows = << >>
      THEN alerts' = alerts \cup {"csv-no-rows"} /\ UNCHANGED csvRows
      ELSE csvRows' = rows /\ UNCHANGED alerts

handleCsvUpload(file) ==
  /\ step = "account" /\ ~OverlayShown /\ ~batchProgress.isComplete
  /\ pc = "idle" /\ csvRows = << >>
  /\ ReadCsv(file)
  /\ UNCHANGED <<step, isLoading, isPublishing, article, keywords, publishResult,
                 batchProgress, clientWebsite, accountMemory>>
  /\ UNCHANGED <<refVars, chainVars, manualVars, fnVars>>
  /\ UNCHANGED <<inflight, publishLog, outlineLog, titlesGiven, trackerLog, errors>>

(***************************************************************************)
(* loadNextCsvAccount, up to its first await.  m is the render captured by *)
(* the running chain.                                                      *)
(***************************************************************************)
LoadAccountBegin(m, progress) ==
  LET currentIndex == currentAccountRef'
  IN  IF currentIndex >= Len(m.csvRows)
      THEN /\ batchProgress' = [progress EXCEPT !.isComplete = TRUE]
           /\ pc' = "wait_clickup"
           /\ UNCHANGED <<isLoading, inflight>>
      ELSE /\ batchProgress' = progress
           /\ isLoading' = TRUE
           /\ inflight' = inflight \cup {<<"chain", "brief">>}
           /\ pc' = "brief"

startBatchProduction ==
  /\ step = "account" /\ ~OverlayShown /\ ~batchProgress.isComplete
  /\ pc = "idle"
  /\ csvRows # << >>
  /\ snap' = Render
  /\ publishedUrlsRef' = << >>
  /\ totalArticlesRef' = 0
  /\ originalKeywordsRef' = << >>
  /\ clientWebsiteRef' = NoWebsite
  /\ currentAccountRef' = 0
  /\ totalAccountsRef' = Len(csvRows)
  /\ currentArticleRef' = 0
  /\ isProcessingRef' = FALSE
  /\ LoadAccountBegin(Render, [InitialProgress EXCEPT !.totalAccounts = Len(csvRows)])
  /\ loc' = NoLoc
  /\ UNCHANGED <<step, isPublishing, article, keywords, publishResult, csvRows,
                 clientWebsite, accountMemory>>
  /\ UNCHANGED <<manualVars, fnVars>>
  /\ UNCHANGED <<publishLog, outlineLog, titlesGiven, trackerLog, errors, alerts>>

BriefAnswers == {"failed", "html-website", "html-no-website", "json"}

WebsiteKept(answer, uuid) ==
  IF answer = "html-website" THEN SiteOf(uuid) ELSE clientWebsiteRef

\* handleDataAcquisition(data, true): the website of a brief that is HTML and
\* names one, else null.
handleDataAcquisition(answer, uuid) ==
  IF answer = "html-website" THEN SiteOf(uuid) ELSE NoWebsite

\* The answer of fetchBriefByUuid arrives: the rest of loadNextCsvAccount up
\* to the pacing delay before autoGenerateOutline.
BriefResponse(answer) ==
  /\ pc = "brief"
  /\ inflight' = inflight \ {<<"chain", "brief">>}
  /\ LET currentIndex == currentAccountRef
         row == snap.csvRows[currentIndex + 1]
         detectedWebsite == handleDataAcquisition(answer, row.account_uuid)
         allKeywords == SplitList(row.kw)
         keywordsToUse == Slice(allKeywords, 0, 5)
     IN  IF answer = "failed"
         THEN /\ errors' = errors \cup {"brief"}
              /\ alerts' = alerts \cup {"brief"}
              /\ pc' = "stopped"
              /\ UNCHANGED <<clientWebsite, clientWebsiteRef, originalKeywordsRef,
                             keywords, totalArticlesRef, currentAccountRef,
                             currentArticleRef, batchProgress, accountMemory, step,
                             loc>>
         ELSE /\ clientWebsiteRef' = detectedWebsite
              /\ clientWebsite' = detectedWebsite
              /\ IF allKeywords = << >>
                 THEN /\ errors' = errors \cup {"brief"}
                      /\ alerts' = alerts \cup {"brief"}
                      /\ pc' = "stopped"
                      /\ UNCHANGED <<originalKeywordsRef, keywords, totalArticlesRef,
                                     currentAccountRef, currentArticleRef, batchProgress,
                                     accountMemory, step, loc>>
                 ELSE /\ originalKeywordsRef' = keywordsToUse
                      /\ keywords' = keywordsToUse
                      /\ totalArticlesRef' = row.task_count
                      /\ currentAccountRef' = currentIndex + 1
                      /\ currentArticleRef' = 0
                      /\ batchProgress' =
                           [batchProgress EXCEPT !.currentAccount = currentIndex + 1,
                                                 !.currentArticle = 0,
                                                 !.totalArticles = row.task_count,
                                                 !.currentAccountUuid = row.account_uuid]
                      /\ accountMemory' =
                           IF row.account_uuid \notin DOMAIN snap.accountMemory
                           THEN [u \in DOMAIN accountMemory \cup {row.account_uuid} |->
                                   IF u = row.account_uuid THEN << >> ELSE accountMemory[u]]
                           ELSE accountMemory
                      /\ step' = "keywords"
                      /\ loc' = [NoLoc EXCEPT !.kws = keywordsToUse,
                                               !.row = currentIndex + 1]
                      /\ pc' = "wait_outline_first"
                      /\ UNCHANGED <<errors, alerts>>
  /\ isLoading' = FALSE
  /\ UNCHANGED <<isPublishing, article, publishResult, csvRows>>
  /\ UNCHANGED <<publishedUrlsRef, totalAccountsRef, isProcessingRef, snap>>
  /\ UNCHANGED <<manualVars, fnVars, publishLog, outlineLog, titlesGiven, trackerLog>>

(***************************************************************************)
(* proceedToOutlineCSV.  m is the render whose state the caller's closure  *)
(* captured.                                                               *)
(***************************************************************************)
\* What the function reads before it awaits the outline.
OutlineReads(m) ==
  LET articleNumber == IF m.batchProgress.currentArticle = 0 THEN 1
                       ELSE m.batchProgress.currentArticle
      accountUuid == m.batchProgress.currentAccountUuid
  IN  [articleNumber |-> articleNumber,
       accountUuid |-> accountUuid,
       previousTitles |-> IF accountUuid # NoUuid /\ accountUuid \in DOMAIN m.accountMemory
                          THEN m.accountMemory[accountUuid] ELSE << >>,
       contentType |-> variationPrompts[Min(articleNumber - 1, Len(variationPrompts) - 1) + 1]]

Includes(seq, x) == \E i \in DOMAIN seq : seq[i] = x

OutlineSizes == {1, 2}

\* The answers of generateArticleOutline that do not throw: a title (or
\* none) and n sections, all titled or not.
OutlineAnswers ==
  {[title |-> t, n |-> n, titled |-> TRUE] : t \in OutlineTitles, n \in OutlineSizes}
    \cup {[title |-> t, n |-> 0, titled |-> TRUE] : t \in {NoTitle, <<"T1">>}}
    \cup {[title |-> <<"T1">>, n |-> 1, titled |-> FALSE]}

\* The first entry of candidates that is not in previousTitles, else dflt.
RECURSIVE FirstFree(_, _, _)
FirstFree(candidates, previousTitles, dflt) ==
  IF candidates = << >> THEN dflt
  ELSE IF ~Includes(previousTitles, Head(candidates)) THEN Head(candidates)
  ELSE FirstFree(Tail(candidates), previousTitles, dflt)

Numbered(title, articleNumber) == title \o <<" (", ToString(articleNumber), ")">>

\* Title of the fallback outline.
FallbackTitle(outlineTitle, kws, previousTitles, articleNumber) ==
  IF outlineTitle = NoTitle \/ Includes(previousTitles, outlineTitle)
  THEN LET selectedTitle == FirstFree(titleVariations(kws[1]), previousTitles, outlineTitle)
       IN  IF Includes(previousTitles, selectedTitle)
           THEN Numbered(IF articleNumber <= 6 THEN titleVariations(kws[1])[articleNumber]
                         ELSE <<"undefined">>, articleNumber)
           ELSE selectedTitle
  ELSE outlineTitle

\* Title of a valid outline.
DedupedTitle(outlineTitle, previousTitles, articleNumber) ==
  IF Includes(previousTitles, outlineTitle)
  THEN LET finalTitle ==
             FirstFree([i \in DOMAIN titleSuffixes |-> Append(outlineTitle, titleSuffixes[i])],
                       previousTitles, outlineTitle)
       IN  IF Includes(previousTitles, finalTitle)
           THEN Numbered(outlineTitle, articleNumber)
           ELSE finalTitle
  ELSE outlineTitle

EmptySection(i) == [id |-> i, title |-> i, content |-> << >>, keywords |-> <<i>>]

\* articleData of proceedToOutlineCSV.
ArticleData(outline, kws, reads, tag) ==
  LET hasValidSections == outline.n > 0 /\ outline.titled
  IN  IF ~hasValidSections
      THEN [NoArticle EXCEPT
              !.title = FallbackTitle(outline.title, kws, reads.previousTitles,
                                      reads.articleNumber),
              !.sections = [i \in 1..Len(Slice(kws, 0, 4)) |-> EmptySection(i)],
              !.primaryKeywords = kws,
              !.tag = tag]
      ELSE [NoArticle EXCEPT
              !.title = DedupedTitle(outline.title, reads.previousTitles,
                                     reads.articleNumber),
              !.sections = [i \in 1..outline.n |-> EmptySection(i)],
              !.primaryKeywords = kws,
              !.tag = tag]

\* setAccountMemory(prev => ...) at the end of proceedToOutlineCSV.
RememberTitle(memory, accountUuid, title) ==
  IF accountUuid # NoUuid /\ title # NoTitle
  THEN [u \in DOMAIN memory \cup {accountUuid} |->
          IF u = accountUuid
          THEN Append(IF u \in DOMAIN memory THEN memory[u] ELSE << >>, title)
          ELSE memory[u]]
  ELSE memory

OutlinesFor(row) == Cardinality({i \in DOMAIN outlineLog : outlineLog[i].tag[1] = row})

\* autoGenerateOutline up to the call of generateArticleOutline.
OutlineBegin(kws, websiteUrl) ==
  LET reads == OutlineReads(snap)
  IN  IF kws = << >>
      THEN /\ errors' = errors \cup {"outline"}
           /\ pc' = "stopped"
           /\ isLoading' = FALSE
           /\ UNCHANGED <<loc, inflight, outlineLog>>
      ELSE /\ loc' = [loc EXCEPT !.kws = kws, !.websiteUrl = websiteUrl,
                                 !.articleNumber = reads.articleNumber,
                                 !.accountUuid = reads.accountUuid,
                                 !.previousTitles = reads.previousTitles]
           /\ inflight' = inflight \cup {<<"chain", "outline">>}
           /\ outlineLog' = Append(outlineLog,
                                   [tag |-> <<loc.row, OutlinesFor(loc.row) + 1>>,
                                    contentType |-> reads.contentType,
                                    articleNumber |-> reads.articleNumber,
                                    accountUuid |-> reads.accountUuid])
           /\ pc' = "outline"
           /\ isLoading' = TRUE
           /\ UNCHANGED errors

\* The pacing delay of loadNextCsvAccount ends: it reads the website ref
\* and calls autoGenerateOutline.
FirstOutlineTimer ==
  /\ pc = "wait_outline_first"
  /\ OutlineBegin(loc.kws, clientWebsiteRef)
  /\ UNCHANGED <<step, isPublishing, article, keywords, publishResult, csvRows,
                 batchProgress, clientWebsite, accountMemory>>
  /\ UNCHANGED <<refVars, snap, manualVars, fnVars>>
  /\ UNCHANGED <<publishLog, titlesGiven, trackerLog, alerts>>

\* The pacing delay of autoContinue ends: autoGenerateOutline with the
\* rotated keywords and the website read before the delay.
OutlineTimer ==
  /\ pc = "wait_outline"
  /\ OutlineBegin(loc.kws, loc.websiteUrl)
  /\ UNCHANGED <<step, isPublishing, article, keywords, publishResult, csvRows,
                 batchProgress, clientWebsite, accountMemory>>
  /\ UNCHANGED <<refVars, snap, manualVars, fnVars>>
  /\ UNCHANGED <<publishLog, titlesGiven, trackerLog, alerts>>

\* generateArticleOutline throws.
OutlineRejected ==
  /\ pc = "outline"
  /\ inflight' = inflight \ {<<"chain", "outline">>}
  /\ errors' = errors \cup {"outline"}
  /\ isLoading' = FALSE
  /\ pc' = "stopped"
  /\ UNCHANGED <<step, isPublishing, article, keywords, publishResult, csvRows,
                 batchProgress, clientWebsite, accountMemory>>
  /\ UNCHANGED <<refVars, snap, loc, manualVars>>
  /\ UNCHANGED <<publishLog, outlineLog, titlesGiven, trackerLog, alerts>>

OutlineFailed == OutlineRejected /\ UNCHANGED fnVars

\* generateArticleOutline answers: the rest of proceedToOutlineCSV and of
\* autoGenerateOutline up to the pacing delay before autoStartWriting.
OutlineAccepted(outline) ==
  /\ pc = "outline"
  /\ inflight' = inflight \ {<<"chain", "outline">>}
  /\ LET reads == [articleNumber |-> loc.articleNumber,
                   previousTitles |-> loc.previousTitles]
         articleData == ArticleData(outline, loc.kws, reads,
                                    outlineLog[Len(outlineLog)].tag)
     IN  /\ accountMemory' = RememberTitle(accountMemory, loc.accountUuid, articleData.title)
         /\ article' = articleData
         /\ loc' = [loc EXCEPT !.art = articleData]
         /\ titlesGiven' = titlesGiven
                              \cup {<<snap.csvRows[loc.row].account_uuid, articleData.title>>}
  /\ step' = "outline"
  /\ isLoading' = FALSE
  /\ pc' = "wait_write"
  /\ UNCHANGED <<isPublishing, keywords, publishResult, csvRows, batchProgress,
                 clientWebsite>>
  /\ UNCHANGED <<refVars, snap, manualVars>>
  /\ UNCHANGED <<publishLog, outlineLog, trackerLog, errors, alerts>>

OutlineResponse(outline) == OutlineAccepted(outline) /\ UNCHANGED fnVars

(***************************************************************************)
(* autoStartWriting and startWriting                                       *)
(***************************************************************************)
WritingSwallowed ==
  /\ errors' = errors \cup {"write"}
  /\ alerts' = alerts \cup {"write"}
  /\ isLoading' = FALSE
  /\ pc' = "wait_write"

\* The catch and finally blocks of startWriting, rethrown by
\* autoStartWriting: nothing above catches it, the chain ends.
WritingThrows ==
  /\ errors' = errors \cup {"write"}
  /\ alerts' = alerts \cup {"write"}
  /\ isLoading' = FALSE
  /\ pc' = "stopped"

LinkGateLoose(totalLinksInserted) == totalLinksInserted < 2

\* The hard block of startWriting on the number of anchors found.
LinkGateBlocks(totalLinksInserted) == totalLinksInserted < 3

\* The pacing delay of autoGenerateOutline ends: autoStartWriting calls
\* startWriting(generatedArticle, websiteUrl) up to its first await.
WriteTimer ==
  /\ pc = "wait_write"
  /\ IF Len(loc.art.sections) = 0
     THEN WritingThrows /\ UNCHANGED <<inflight, loc>>
     ELSE /\ isLoading' = TRUE
          /\ inflight' = inflight \cup {<<"chain", "section">>}
          /\ loc' = [loc EXCEPT !.i = 0]
          /\ pc' = "section"
          /\ UNCHANGED <<errors, alerts>>
  /\ UNCHANGED <<step, isPublishing, article, keywords, publishResult, csvRows,
                 batchProgress, clientWebsite, accountMemory>>
  /\ UNCHANGED <<refVars, snap, manualVars, fnVars>>
  /\ UNCHANGED <<publishLog, outlineLog, titlesGiven, trackerLog>>

\* generateSectionContent throws.
SectionFailed ==
  /\ pc = "section"
  /\ inflight' = inflight \ {<<"chain", "section">>}
  /\ WritingThrows
  /\ UNCHANGED <<step, isPublishing, article, keywords, publishResult, csvRows,
                 batchProgress, clientWebsite, accountMemory>>
  /\ UNCHANGED <<refVars, snap, loc, manualVars, fnVars>>
  /\ UNCHANGED <<publishLog, outlineLog, titlesGiven, trackerLog>>

\* generateSectionContent answers for section loc.i: the section is
\* stored; after the last one the links are inserted and verified and the
\* first image is requested.
SectionResponse(rawContent) ==
  /\ pc = "section"
  /\ LET i == loc.i + 1
         sections == [loc.art.sections EXCEPT ![i].content = improveReadability(rawContent)]
         currentWebsite == loc.websiteUrl
         finalSections ==
           IF currentWebsite # NoWebsite
           THEN insertInternalLinksIntoSections(sections,
                                                generateClientInternalLinks(currentWebsite))
           ELSE sections
         totalLinksInserted == TotalAnchors(finalSections)
     IN  /\ article' = IF article.tag = loc.art.tag
                       THEN [article EXCEPT !.sections = sections] ELSE article
         /\ IF i < Len(sections)
            THEN /\ loc' = [loc EXCEPT !.art.sections = sections, !.i = i]
                 /\ UNCHANGED <<inflight, pc, isLoading, errors, alerts>>
            ELSE IF currentWebsite # NoWebsite /\ LinkGateBlocks(totalLinksInserted)
            THEN /\ inflight' = inflight \ {<<"chain", "section">>}
                 /\ loc' = [loc EXCEPT !.art.sections = finalSections]
                 /\ WritingThrows
            ELSE /\ inflight' = (inflight \ {<<"chain", "section">>})
                                  \cup {<<"chain", "image">>}
                 /\ loc' = [loc EXCEPT !.art.sections = finalSections, !.attempt = 1]
                 /\ pc' = "image"
                 /\ UNCHANGED <<isLoading, errors, alerts>>
  /\ UNCHANGED <<step, isPublishing, keywords, publishResult, csvRows,
                 batchProgress, clientWebsite, accountMemory>>
  /\ UNCHANGED <<refVars, snap, manualVars, fnVars>>
  /\ UNCHANGED <<publishLog, outlineLog, titlesGiven, trackerLog>>

MAX_IMAGE_ATTEMPTS == 3

\* generateImage throws or returns nothing, or the image cannot be
\* normalised: after the wait the next attempt, or the final throw.
ImageAttemptFails ==
  /\ pc = "image"
  /\ IF loc.attempt < MAX_IMAGE_ATTEMPTS
     THEN /\ loc' = [loc EXCEPT !.attempt = @ + 1]
          /\ UNCHANGED <<inflight, pc, isLoading, errors, alerts>>
     ELSE /\ inflight' = inflight \ {<<"chain", "image">>}
          /\ WritingThrows
          /\ UNCHANGED loc
  /\ UNCHANGED <<step, isPublishing, article, keywords, publishResult, csvRows,
                 batchProgress, clientWebsite, accountMemory>>
  /\ UNCHANGED <<refVars, snap, manualVars>>
  /\ UNCHANGED <<publishLog, outlineLog, titlesGiven, trackerLog>>

ImageFailed == ImageAttemptFails /\ UNCHANGED fnVars

\* A valid image arrives: the article is completed and autoStartWriting
\* validates it and starts the pacing delay before autoPublish.
ImageAccepted ==
  /\ pc = "image"
  /\ inflight' = inflight \ {<<"chain", "image">>}
  /\ LET completeArticle ==
           [loc.art EXCEPT !.featuredImage = TRUE,
                           !.altKeyword = IF snap.keywords = << >> THEN "undefined"
                                          ELSE snap.keywords[1]]
     IN  /\ article' = completeArticle
         /\ loc' = [loc EXCEPT !.art = completeArticle, !.i = 0, !.attempt = 0]
         /\ pc' = IF Len(completeArticle.sections) = 0 THEN "stopped" ELSE "wait_publish"
  /\ step' = "writing"
  /\ isLoading' = FALSE
  /\ UNCHANGED <<isPublishing, keywords, publishResult, csvRows, batchProgress,
                 clientWebsite, accountMemory>>
  /\ UNCHANGED <<refVars, snap, manualVars>>
  /\ UNCHANGED <<publishLog, outlineLog, titlesGiven, trackerLog, errors, alerts>>

ImageResponse == ImageAccepted /\ UNCHANGED fnVars

(***************************************************************************)
(* autoPublish and publish                                                 *)
(***************************************************************************)
HasEmptySection(sections) == \E i \in DOMAIN sections : sections[i].content = << >>

\* The pacing delay of autoStartWriting ends: autoPublish calls
\* publish(completedArticle), which uploads the image first.
PublishTimer ==
  /\ pc = "wait_publish"
  /\ isPublishing' = TRUE
  /\ publishResult' = NoResult
  /\ publishLog' = Append(publishLog,
                          [tag |-> loc.art.tag,
                           site |-> loc.websiteUrl # NoWebsite,
                           anchors |-> TotalAnchors(loc.art.sections),
                           empty |-> HasEmptySection(loc.art.sections)])
  /\ inflight' = inflight \cup {IF loc.art.featuredImage THEN <<"chain", "upload">>
                                ELSE <<"chain", "categories">>}
  /\ pc' = IF loc.art.featuredImage THEN "upload" ELSE "categories"
  /\ loc' = [loc EXCEPT !.mediaId = 0]
  /\ UNCHANGED <<step, isLoading, article, keywords, csvRows, batchProgress,
                 clientWebsite, accountMemory>>
  /\ UNCHANGED <<refVars, snap, manualVars, fnVars>>
  /\ UNCHANGED <<outlineLog, titlesGiven, trackerLog, errors, alerts>>

\* uploadImageToWP returns a media id, or null on any failure; the
\* category lookup follows either way.
UploadResponse(ok) ==
  /\ pc = "upload"
  /\ loc' = [loc EXCEPT !.mediaId = IF ok THEN 1 ELSE 0]
  /\ inflight' = (inflight \ {<<"chain", "upload">>}) \cup {<<"chain", "categories">>}
  /\ pc' = "categories"
  /\ UNCHANGED <<stateVars, refVars, snap, manualVars, fnVars>>
  /\ UNCHANGED <<publishLog, outlineLog, titlesGiven, trackerLog, errors, alerts>>

CapturedNothing(urls, result) == urls

CapturedInFront(urls, result) ==
  IF result.success THEN <<result.url>> \o urls ELSE urls

\* publishedUrlsRef.current after autoPublish has looked at the result.
CapturedUrls(urls, result) ==
  IF result.success THEN Append(urls, result.url) ELSE urls

\* publish returns result to autoPublish, which counts the article, keeps
\* the URL of a successful post and starts the pacing delay before
\* autoContinue.
PublishReturns(result) ==
  LET newCurrentArticle == currentArticleRef + 1
  IN  /\ publishResult' = result
      /\ isPublishing' = FALSE
      /\ errors' = IF result.success THEN errors ELSE errors \cup {"publish"}
      /\ currentArticleRef' = newCurrentArticle
      /\ publishedUrlsRef' = CapturedUrls(publishedUrlsRef, result)
      /\ batchProgress' =
           [batchProgress EXCEPT
              !.currentArticle = newCurrentArticle,
              !.publishedUrls = IF result.success THEN Append(@, result.url) ELSE @]
      /\ loc' = [loc EXCEPT !.newCurrentArticle = newCurrentArticle, !.mediaId = 0]
      /\ pc' = "wait_continue"

\* The category lookup answers (found, not found or refused), and the post
\* is sent.
CategoriesResponse ==
  /\ pc = "categories"
  /\ inflight' = (inflight \ {<<"chain", "categories">>}) \cup {<<"chain", "post">>}
  /\ pc' = "post"
  /\ UNCHANGED <<stateVars, refVars, snap, loc, manualVars, fnVars>>
  /\ UNCHANGED <<publishLog, outlineLog, titlesGiven, trackerLog, errors, alerts>>

\* The category lookup fails on the network: publish catches it.
CategoriesFailed ==
  /\ pc = "categories"
  /\ inflight' = inflight \ {<<"chain", "categories">>}
  /\ PublishReturns([set |-> TRUE, success |-> FALSE, url |-> <<0, 0>>])
  /\ UNCHANGED <<step, isLoading, article, keywords, csvRows, clientWebsite,
                 accountMemory>>
  /\ UNCHANGED <<totalArticlesRef, originalKeywordsRef, clientWebsiteRef,
                 currentAccountRef, totalAccountsRef, isProcessingRef>>
  /\ UNCHANGED <<snap, manualVars, fnVars>>
  /\ UNCHANGED <<publishLog, outlineLog, titlesGiven, trackerLog, alerts>>

\* The blog answers the post: created (with its link) or refused.
PostResponse(ok) ==
  /\ pc = "post"
  /\ inflight' = inflight \ {<<"chain", "post">>}
  /\ PublishReturns([set |-> TRUE, success |-> ok,
                     url |-> IF ok THEN loc.art.tag ELSE <<0, 0>>])
  /\ UNCHANGED <<step, isLoading, article, keywords, csvRows, clientWebsite,
                 accountMemory>>
  /\ UNCHANGED <<totalArticlesRef, originalKeywordsRef, clientWebsiteRef,
                 currentAccountRef, totalAccountsRef, isProcessingRef>>
  /\ UNCHANGED <<snap, manualVars, fnVars>>
  /\ UNCHANGED <<publishLog, outlineLog, titlesGiven, trackerLog, alerts>>

(***************************************************************************)
(* autoContinue                                                            *)
(***************************************************************************)
RotateOnce(kws, n) ==
  IF n = 0 \/ kws = << >> THEN kws ELSE Append(Tail(kws), Head(kws))

\* rotatedKeywords: the originals shifted left n times.
RECURSIVE Rotate(_, _)
Rotate(kws, n) ==
  IF n = 0 \/ kws = << >> THEN kws
  ELSE Rotate(Append(Tail(kws), Head(kws)), n - 1)

AccountFinishedLate(currentArticle, totalArticles) == currentArticle > totalArticles

AccountFinished(currentArticle, totalArticles) == currentArticle >= totalArticles

AllAccountsDoneEarly(currentAccountNumber, totalAccountsNumber) ==
  currentAccountNumber + 1 >= totalAccountsNumber

AllAccountsDone(currentAccountNumber, totalAccountsNumber) ==
  currentAccountNumber >= totalAccountsNumber

\* The pacing delay of autoPublish ends:
\* autoContinue(newCurrentArticle, totalArticlesRef.current).
ContinueTimer ==
  /\ pc = "wait_continue"
  /\ LET currentArticle == loc.newCurrentArticle
         totalArticles == totalArticlesRef
         rotatedKeywords == Rotate(originalKeywordsRef, currentArticle)
     IN  IF AccountFinished(currentArticle, totalArticles)
         THEN /\ IF AllAccountsDone(currentAccountRef, totalAccountsRef)
                 THEN /\ batchProgress' = [batchProgress EXCEPT !.isComplete = TRUE]
                      /\ pc' = "wait_clickup"
                 ELSE /\ pc' = "wait_next_account"
                      /\ UNCHANGED batchProgress
              /\ UNCHANGED <<keywords, publishResult, step, loc, errors>>
         ELSE IF originalKeywordsRef = << >>
         THEN /\ errors' = errors \cup {"continue"}
              /\ pc' = "stopped"
              /\ UNCHANGED <<keywords, publishResult, step, loc, batchProgress>>
         ELSE /\ keywords' = rotatedKeywords
              /\ publishResult' = NoResult
              /\ step' = "keywords"
              /\ loc' = [loc EXCEPT !.kws = rotatedKeywords,
                                    !.websiteUrl = clientWebsiteRef]
              /\ pc' = "wait_outline"
              /\ UNCHANGED <<batchProgress, errors>>
  /\ UNCHANGED <<isLoading, isPublishing, article, csvRows, clientWebsite, accountMemory>>
  /\ UNCHANGED <<refVars, snap, manualVars, fnVars>>
  /\ UNCHANGED <<inflight, publishLog, outlineLog, titlesGiven, trackerLog, alerts>>

\* The pacing delay before the next account ends: loadNextCsvAccount.
NextAccountTimer ==
  /\ pc = "wait_next_account"
  /\ UNCHANGED currentAccountRef
  /\ LoadAccountBegin(snap, batchProgress)
  /\ UNCHANGED <<step, isPublishing, article, keywords, publishResult, csvRows,
                 clientWebsite, accountMemory>>
  /\ UNCHANGED <<publishedUrlsRef, totalArticlesRef, originalKeywordsRef,
                 clientWebsiteRef, totalAccountsRef, currentArticleRef, isProcessingRef>>
  /\ UNCHANGED <<snap, loc, manualVars, fnVars>>
  /\ UNCHANGED <<publishLog, outlineLog, titlesGiven, trackerLog, errors, alerts>>

(***************************************************************************)
(* updateClickUpTasksAutomatic                                             *)
(***************************************************************************)
NoTask == [row |-> 0, task |-> 0]

\* The next (row, task) of the nested loops for which a call is made,
\* starting at task index i (0-based) of row r; NoTask when the loops end.
\* The break on exhausted URLs leaves only the inner loop.
RECURSIVE ClickUpNext(_, _, _, _, _)
ClickUpNext(rows, urls, r, i, urlIndex) ==
  IF r > Len(rows) THEN NoTask
  ELSE LET taskIds == SplitList(rows[r].task_clickup_ids)
       IN  IF Len(taskIds) = 0 \/ i >= Len(taskIds) \/ urlIndex >= Len(urls)
           THEN ClickUpNext(rows, urls, r + 1, 0, urlIndex)
           ELSE [row |-> r, task |-> i]

UrlForFirst(urls, urlIndex) == urls[1]

\* const url = urls[urlIndex]
UrlFor(urls, urlIndex) == urls[urlIndex + 1]

\* Continue the loops at (r, i): call updateClickUpTaskUrl for the next
\* task, or leave through the finally block.
ClickUpAdvance(r, i, urlIndex, successCount) ==
  LET next == ClickUpNext(snap.csvRows, publishedUrlsRef, r, i, urlIndex)
      taskIds == SplitList(snap.csvRows[next.row].task_clickup_ids)
  IN  IF next = NoTask
      THEN /\ isLoading' = FALSE
           /\ pc' = "wait_prodline"
           /\ loc' = [loc EXCEPT !.urlIndex = urlIndex, !.successCount = successCount]
           /\ inflight' = inflight \ {<<"chain", "clickup">>}
           /\ UNCHANGED trackerLog
      ELSE /\ isLoading' = TRUE
           /\ pc' = "clickup_url"
           /\ loc' = [loc EXCEPT !.trow = next.row, !.task = next.task,
                                 !.urlIndex = urlIndex, !.successCount = successCount]
           /\ inflight' = inflight \cup {<<"chain", "clickup">>}
           /\ trackerLog' = Append(trackerLog,
                                   [op |-> "url", task |-> taskIds[next.task + 1],
                                    url |-> UrlFor(publishedUrlsRef, urlIndex)])

\* The delay after completion ends: updateClickUpTasksAutomatic(urls).
ClickUpTimer ==
  /\ pc = "wait_clickup"
  /\ IF Len(snap.csvRows) = 0 \/ Len(publishedUrlsRef) = 0
     THEN /\ pc' = "wait_prodline"
          /\ UNCHANGED <<isLoading, loc, inflight, trackerLog>>
     ELSE ClickUpAdvance(1, 0, 0, 0)
  /\ UNCHANGED <<step, isPublishing, article, keywords, publishResult, csvRows,
                 batchProgress, clientWebsite, accountMemory>>
  /\ UNCHANGED <<refVars, snap, manualVars, fnVars>>
  /\ UNCHANGED <<publishLog, outlineLog, titlesGiven, errors, alerts>>

\* updateClickUpTaskUrl returns: on success markClickUpTaskComplete is
\* called for the same task, else the loop moves on.
ClickUpUrlResponse(urlSuccess) ==
  /\ pc = "clickup_url"
  /\ IF urlSuccess
     THEN /\ pc' = "clickup_complete"
          /\ trackerLog' =
               Append(trackerLog,
                      [op |-> "complete",
                       task |-> SplitList(snap.csvRows[loc.trow].task_clickup_ids)[loc.task + 1],
                       url |-> <<0, 0>>])
          /\ UNCHANGED <<isLoading, loc, inflight>>
     ELSE ClickUpAdvance(loc.trow, loc.task + 1, loc.urlIndex + 1, loc.successCount)
  /\ errors' = IF urlSuccess THEN errors ELSE errors \cup {"clickup"}
  /\ UNCHANGED <<step, isPublishing, article, keywords, publishResult, csvRows,
                 batchProgress, clientWebsite, accountMemory>>
  /\ UNCHANGED <<refVars, snap, manualVars, fnVars>>
  /\ UNCHANGED <<publishLog, outlineLog, titlesGiven, alerts>>

\* markClickUpTaskComplete returns.
ClickUpCompleteResponse(completeSuccess) ==
  /\ pc = "clickup_complete"
  /\ ClickUpAdvance(loc.trow, loc.task + 1, loc.urlIndex + 1,
                    IF completeSuccess THEN loc.successCount + 1 ELSE loc.successCount)
  /\ errors' = IF completeSuccess THEN errors ELSE errors \cup {"clickup"}
  /\ UNCHANGED <<step, isPublishing, article, keywords, publishResult, csvRows,
                 batchProgress, clientWebsite, accountMemory>>
  /\ UNCHANGED <<refVars, snap, manualVars, fnVars>>
  /\ UNCHANGED <<publishLog, outlineLog, titlesGiven, alerts>>

(***************************************************************************)
(* updateProdlineTasks                                                     *)
(***************************************************************************)
ProdlineNextInRow(rows, r, i) ==
  IF r > Len(rows) \/ i >= Len(SplitList(rows[r].task_prodline_ids)) THEN NoTask
  ELSE [row |-> r, task |-> i]

RECURSIVE ProdlineNext(_, _, _)
ProdlineNext(rows, r, i) ==
  IF r > Len(rows) THEN NoTask
  ELSE LET prodlineIds == SplitList(rows[r].task_prodline_ids)
       IN  IF i >= Len(prodlineIds) THEN ProdlineNext(rows, r + 1, 0)
           ELSE [row |-> r, task |-> i]

\* Continue at (r, i): post the next task, or leave through the finally
\* block; the caller then shows the account step again.
ProdlineAdvance(r, i, successCount) ==
  LET next == ProdlineNext(snap.csvRows, r, i)
  IN  IF next = NoTask
      THEN /\ isLoading' = FALSE
           /\ step' = "account"
           /\ pc' = "done"
           /\ loc' = [loc EXCEPT !.prodlineCount = successCount]
           /\ inflight' = inflight \ {<<"chain", "prodline">>}
           /\ UNCHANGED trackerLog
      ELSE /\ isLoading' = TRUE
           /\ pc' = "prodline"
           /\ loc' = [loc EXCEPT !.trow = next.row, !.task = next.task,
                                 !.prodlineCount = successCount]
           /\ inflight' = inflight \cup {<<"chain", "prodline">>}
           /\ trackerLog' =
                Append(trackerLog,
                       [op |-> "prodline",
                        task |-> SplitList(snap.csvRows[next.row].task_prodline_ids)[next.task + 1],
                        url |-> <<0, 0>>])
           /\ UNCHANGED step

\* The delay after the tracker update ends: updateProdlineTasks().
ProdlineTimer ==
  /\ pc = "wait_prodline"
  /\ IF Len(snap.csvRows) = 0
     THEN /\ step' = "account"
          /\ pc' = "done"
          /\ UNCHANGED <<isLoading, loc, inflight, trackerLog>>
     ELSE ProdlineAdvance(1, 0, 0)
  /\ UNCHANGED <<isPublishing, article, keywords, publishResult, csvRows,
                 batchProgress, clientWebsite, accountMemory>>
  /\ UNCHANGED <<refVars, snap, manualVars, fnVars>>
  /\ UNCHANGED <<publishLog, outlineLog, titlesGiven, errors, alerts>>

\* The production line answers one task (accepted or not).
ProdlineResponse(ok) ==
  /\ pc = "prodline"
  /\ ProdlineAdvance(loc.trow, loc.task + 1,
                     IF ok THEN loc.prodlineCount + 1 ELSE loc.prodlineCount)
  /\ errors' = IF ok THEN errors ELSE errors \cup {"prodline"}
  /\ UNCHANGED <<isPublishing, article, keywords, publishResult, csvRows,
                 batchProgress, clientWebsite, accountMemory>>
  /\ UNCHANGED <<refVars, snap, manualVars, fnVars>>
  /\ UNCHANGED <<publishLog, outlineLog, titlesGiven, alerts>>

(***************************************************************************)
(* The unattended batch run: the operator uploads one file and clicks      *)
(* "Iniciar Producción" once; every later step is the chain's own.         *)
(***************************************************************************)
Upload == \E file \in CsvFiles : handleCsvUpload(file)
Brief == \E answer \in BriefAnswers : BriefResponse(answer)
Outline == OutlineFailed \/ \E outline \in OutlineAnswers : OutlineResponse(outline)
Writing == SectionFailed \/ \E rawContent \in SectionProse : SectionResponse(rawContent)
Image == ImageFailed \/ ImageResponse
Publishing ==
  \/ \E ok \in BOOLEAN : UploadResponse(ok)
  \/ CategoriesResponse
  \/ CategoriesFailed
  \/ \E ok \in BOOLEAN : PostResponse(ok)
Timers ==
  \/ FirstOutlineTimer
  \/ OutlineTimer
  \/ WriteTimer
  \/ PublishTimer
  \/ ContinueTimer
  \/ NextAccountTimer
Trackers ==
  \/ ClickUpTimer
  \/ ProdlineTimer
  \/ \E ok \in BOOLEAN : ClickUpUrlResponse(ok)
  \/ \E ok \in BOOLEAN : ClickUpCompleteResponse(ok)
  \/ \E ok \in BOOLEAN : ProdlineResponse(ok)

Next ==
  \/ Upload
  \/ startBatchProduction
  \/ Brief
  \/ Outline
  \/ Writing
  \/ Image
  \/ Publishing
  \/ Timers
  \/ Trackers

Spec == Init /\ [][Next]_vars

(***************************************************************************)
(* One call of insertInternalLinksIntoSections on drawn sections.          *)
(***************************************************************************)
LinksInit ==
  /\ AppInit
  /\ fnPc = "start"
  /\ fnOut = << >>
  /\ \E n \in 0..MaxBlocks, k \in 1..MaxSections :
       \E blocks \in [1..n -> InputBlocks] :
         \E c \in Cuts(blocks, k) : fnIn = [i \in 1..k |-> Section(i, c[i])]

InsertLinks ==
  /\ fnPc = "start"
  /\ fnOut' = insertInternalLinksIntoSections(fnIn, TestLinks)
  /\ fnPc' = "returned"
  /\ UNCHANGED <<fnIn, stateVars, refVars, chainVars, manualVars, obsVars>>

SpecLinks == LinksInit /\ [][InsertLinks]_vars

\* The same call, for the properties of the single passes.
SpecPasses == LinksInit /\ [][InsertLinks]_vars

(***************************************************************************)
(* The operator's buttons while a batch runs.  A button can be clicked     *)
(* when its step is shown and the overlay is not.                          *)
(***************************************************************************)
CanClick(shown) ==
  /\ step = shown /\ ~OverlayShown
  /\ batchProgress.totalAccounts > 0
  /\ mpc = "idle" /\ mloc.clicks < MaxClicks

\* 'Generar Estructura H2' in CSV mode: proceedToOutlineCSV(keywords) of
\* the render on screen, up to the call of generateArticleOutline.
ClickGenerate ==
  /\ CanClick("keywords")
  /\ keywords # << >>
  /\ LET reads == OutlineReads(Render)
     IN  mloc' = [mloc EXCEPT !.kws = keywords, !.clicks = @ + 1,
                              !.articleNumber = reads.articleNumber,
                              !.accountUuid = reads.accountUuid,
                              !.previousTitles = reads.previousTitles]
  /\ isLoading' = TRUE
  /\ inflight' = inflight \cup {<<"manual", "outline">>}
  /\ mpc' = "outline"
  /\ UNCHANGED <<step, isPublishing, article, keywords, publishResult, csvRows,
                 batchProgress, clientWebsite, accountMemory>>
  /\ UNCHANGED <<refVars, chainVars, fnVars>>
  /\ UNCHANGED <<publishLog, outlineLog, titlesGiven, trackerLog, errors, alerts>>

ManualOutlineFailed ==
  /\ mpc = "outline"
  /\ inflight' = inflight \ {<<"manual", "outline">>}
  /\ errors' = errors \cup {"manual"}
  /\ isLoading' = FALSE
  /\ mpc' = "idle"
  /\ UNCHANGED <<step, isPublishing, article, keywords, publishResult, csvRows,
                 batchProgress, clientWebsite, accountMemory>>
  /\ UNCHANGED <<refVars, chainVars, mloc, fnVars>>
  /\ UNCHANGED <<publishLog, outlineLog, titlesGiven, trackerLog, alerts>>

ManualOutlineResponse(outline) ==
  /\ mpc = "outline"
  /\ inflight' = inflight \ {<<"manual", "outline">>}
  /\ LET reads == [articleNumber |-> mloc.articleNumber,
                   previousTitles |-> mloc.previousTitles]
         articleData == ArticleData(outline, mloc.kws, reads, <<0, mloc.clicks>>)
     IN  /\ accountMemory' = RememberTitle(accountMemory, mloc.accountUuid,
                                           articleData.title)
         /\ article' = articleData
  /\ step' = "outline"
  /\ isLoading' = FALSE
  /\ mpc' = "idle"
  /\ UNCHANGED <<isPublishing, keywords, publishResult, csvRows, batchProgress,
                 clientWebsite>>
  /\ UNCHANGED <<refVars, chainVars, mloc, fnVars>>
  /\ UNCHANGED <<publishLog, outlineLog, titlesGiven, trackerLog, errors, alerts>>

\* 'Redactar Post Completo': onClick={startWriting} hands the click event
\* over as articleToUse, which has no sections, so startWriting throws.
ClickWrite ==
  /\ CanClick("outline")
  /\ mloc' = [mloc EXCEPT !.clicks = @ + 1]
  /\ errors' = errors \cup {"manual"}
  /\ alerts' = alerts \cup {"write"}
  /\ isLoading' = FALSE
  /\ UNCHANGED <<step, isPublishing, article, keywords, publishResult, csvRows,
                 batchProgress, clientWebsite, accountMemory>>
  /\ UNCHANGED <<refVars, chainVars, mpc, fnVars>>
  /\ UNCHANGED <<inflight, publishLog, outlineLog, titlesGiven, trackerLog>>

\* 'Publicar con Imagen': publish() of the article on screen.
ClickPublish ==
  /\ CanClick("writing")
  /\ isPublishing' = TRUE
  /\ publishResult' = NoResult
  /\ mloc' = [mloc EXCEPT !.art = article, !.clicks = @ + 1, !.mediaId = 0,
                          !.currentArticle = batchProgress.currentArticle]
  /\ inflight' = inflight \cup {IF article.featuredImage THEN <<"manual", "upload">>
                                ELSE <<"manual", "categories">>}
  /\ mpc' = IF article.featuredImage THEN "upload" ELSE "categories"
  /\ UNCHANGED <<step, isLoading, article, keywords, csvRows, batchProgress,
                 clientWebsite, accountMemory>>
  /\ UNCHANGED <<refVars, chainVars, fnVars>>
  /\ UNCHANGED <<publishLog, outlineLog, titlesGiven, trackerLog, errors, alerts>>

ManualUploadResponse(ok) ==
  /\ mpc = "upload"
  /\ mloc' = [mloc EXCEPT !.mediaId = IF ok THEN 1 ELSE 0]
  /\ inflight' = (inflight \ {<<"manual", "upload">>}) \cup {<<"manual", "categories">>}
  /\ mpc' = "categories"
  /\ UNCHANGED <<stateVars, refVars, chainVars, fnVars>>
  /\ UNCHANGED <<publishLog, outlineLog, titlesGiven, trackerLog, errors, alerts>>

ManualCategoriesResponse ==
  /\ mpc = "categories"
  /\ inflight' = (inflight \ {<<"manual", "categories">>}) \cup {<<"manual", "post">>}
  /\ mpc' = "post"
  /\ UNCHANGED <<stateVars, refVars, chainVars, mloc, fnVars>>
  /\ UNCHANGED <<publishLog, outlineLog, titlesGiven, trackerLog, errors, alerts>>

\* The effect on publishResult: a new URL joins the displayed list.
PublishResultEffect(progress, result) ==
  IF progress.totalAccounts > 0 /\ result.set /\ result.success
     /\ ~Includes(progress.publishedUrls, result.url)
  THEN [progress EXCEPT !.publishedUrls = Append(@, result.url)]
  ELSE progress

\* publish() returns to the button's handler, which waits 500 ms.
ManualPublishReturns(result) ==
  /\ publishResult' = result
  /\ isPublishing' = FALSE
  /\ errors' = IF result.success THEN errors ELSE errors \cup {"manual"}
  /\ batchProgress' = PublishResultEffect(batchProgress, result)
  /\ mpc' = "wait_count"
  /\ UNCHANGED <<step, isLoading, article, keywords, csvRows, clientWebsite,
                 accountMemory>>
  /\ UNCHANGED <<refVars, chainVars, mloc, fnVars>>
  /\ UNCHANGED <<publishLog, outlineLog, titlesGiven, trackerLog, alerts>>

ManualCategoriesFailed ==
  /\ mpc = "categories"
  /\ inflight' = inflight \ {<<"manual", "categories">>}
  /\ ManualPublishReturns([set |-> TRUE, success |-> FALSE, url |-> <<0, 0>>])

ManualPostResponse(ok) ==
  /\ mpc = "post"
  /\ inflight' = inflight \ {<<"manual", "post">>}
  /\ ManualPublishReturns([set |-> TRUE, success |-> ok,
                           url |-> IF ok THEN <<0, mloc.clicks>> ELSE <<0, 0>>])

\* After the 500 ms the handler sets currentArticle from its own render.
ManualCountTimer ==
  /\ mpc = "wait_count"
  /\ batchProgress' = [batchProgress EXCEPT !.currentArticle = mloc.currentArticle + 1]
  /\ mpc' = "idle"
  /\ UNCHANGED <<step, isLoading, isPublishing, article, keywords, publishResult,
                 csvRows, clientWebsite, accountMemory>>
  /\ UNCHANGED <<refVars, chainVars, mloc, fnVars, obsVars>>

Clicks ==
  \/ ClickGenerate
  \/ ManualOutlineFailed
  \/ \E outline \in OutlineAnswers : ManualOutlineResponse(outline)
  \/ ClickWrite
  \/ ClickPublish
  \/ \E ok \in BOOLEAN : ManualUploadResponse(ok)
  \/ ManualCategoriesResponse
  \/ ManualCategoriesFailed
  \/ \E ok \in BOOLEAN : ManualPostResponse(ok)
  \/ ManualCountTimer

\* The runs with an operator at the buttons are followed up to the
\* completion decision of autoContinue, on these files.
UiFiles == {FileOf(<<2>>, {}), FileOf(<<1, 1>>, {})}

UiNext ==
  \/ \E file \in UiFiles : handleCsvUpload(file)
  \/ startBatchProduction
  \/ Brief
  \/ Outline
  \/ Writing
  \/ Image
  \/ Publishing
  \/ Timers
  \/ Clicks

SpecUI == Init /\ [][UiNext]_vars

\* Every timer fires and every awaited call is answered.
SpecFair == Spec /\ WF_vars(Next)

(***************************************************************************)
(* GeminiService.executeWithRetry, one call.  fn() is the request of       *)
(* generateText: it resolves with a text or rejects with an error whose    *)
(* message is a sequence of words.  None of generateKeywords,              *)
(* generateArticleOutline, generateSectionContent and analyzeSEO passes    *)
(* maxRetries, so the default applies.                                     *)
(***************************************************************************)
MAX_ATTEMPTS == 3
BASE_DELAY == 1000
BACKOFF_MULTIPLIER == 2

RECURSIVE Pow(_, _)
Pow(b, e) == IF e = 0 THEN 1 ELSE b * Pow(b, e - 1)

\* String(error).toLowerCase(), word by word.
ToLowerCase(word) ==
  CASE word = "Quota" -> "quota"
    [] word = "UNAVAILABLE" -> "unavailable"
    [] word = "Timeout" -> "timeout"
    [] OTHER -> word

RetryableKeys == {"429", "quota", "timeout", "503", "unavailable"}

IsRetryableAlways(error) == TRUE

isRetryableError(error) ==
  \E i \in DOMAIN error : ToLowerCase(error[i]) \in RetryableKeys

calculateDelayFlat(attempt) == BASE_DELAY

calculateDelay(attempt) == BASE_DELAY * Pow(BACKOFF_MULTIPLIER, attempt - 1)

\* What fn() can reject with: the backend's errors and the empty answer
\* generateText turns into an error.
FnErrors ==
  { <<"Error:", "429", "Too", "Many", "Requests">>,
    <<"Error:", "Quota", "exceeded">>,
    <<"Error:", "Timeout">>,
    <<"Error:", "503">>,
    <<"Error:", "UNAVAILABLE">>,
    <<"Error:", "400", "Bad", "Request">>,
    <<"Error:", "Respuesta", "vacía", "del", "modelo">> }

Resolved == [ok |-> TRUE, error |-> << >>]
Rejected(error) == [ok |-> FALSE, error |-> error]

\* executeWithRetry(fn) is entered: attempt 1 calls fn().
RetryInit ==
  /\ AppInit
  /\ fnIn = MAX_ATTEMPTS
  /\ fnPc = "call"
  /\ fnOut = [attempt |-> 1, outcomes |-> << >>, sleeps |-> << >>, result |-> << >>]

\* return await fn()
FnResolves ==
  /\ fnPc = "call"
  /\ fnPc' = "returned"
  /\ fnOut' = [fnOut EXCEPT !.outcomes = Append(@, Resolved), !.result = <<Resolved>>]
  /\ UNCHANGED <<fnIn, stateVars, refVars, chainVars, manualVars, obsVars>>

\* The catch block: sleep and go round again, or break and throw lastError.
FnRejects(err) ==
  /\ fnPc = "call"
  /\ LET attempt == fnOut.attempt
         maxRetries == fnIn
     IN  IF attempt < maxRetries /\ isRetryableError(err)
         THEN /\ fnOut' = [fnOut EXCEPT !.outcomes = Append(@, Rejected(err)),
                                        !.sleeps = Append(@, calculateDelay(attempt)),
                                        !.attempt = attempt + 1]
              /\ UNCHANGED fnPc
         ELSE /\ fnOut' = [fnOut EXCEPT !.outcomes = Append(@, Rejected(err)),
                                        !.result = <<Rejected(err)>>]
              /\ fnPc' = "threw"
  /\ UNCHANGED <<fnIn, stateVars, refVars, chainVars, manualVars, obsVars>>

RetryNext ==
  \/ FnResolves
  \/ \E err \in FnErrors : FnRejects(err)

SpecRetry == RetryInit /\ [][RetryNext]_vars

(***************************************************************************)
(* The image of one article, request by request: startWriting calls        *)
(* generateImage up to MAX_IMAGE_ATTEMPTS times, and each call of          *)
(* generateImage asks the image backend up to IMAGE_REQUESTS times.  The   *)
(* file holds one article, so the counts are those of one article.         *)
(*   fnIn  - attempt of the loop inside generateImage                      *)
(*   fnOut - answers of the backend so far, whether a request followed a   *)
(*           non-transient error, the waits of startWriting, and whether   *)
(*           a normalised image was obtained                               *)
(***************************************************************************)
IMAGE_REQUESTS == 3

ImageWaitFlat(attempt) == 800

\* await wait(800 * attempt)
ImageWait(attempt) == 800 * attempt

ImageFiles == {FileOf(<<1>>, {})}

ImageInit ==
  /\ AppInit
  /\ fnIn = 1
  /\ fnPc = "generateImage"
  /\ fnOut = [answered |-> 0, retriedHard |-> FALSE, waits |-> << >>,
              normalized |-> FALSE]

\* Requests sent to the image backend so far: the answered ones and the
\* one outstanding.
ImageRequests == fnOut.answered + IF pc = "image" THEN 1 ELSE 0

\* A request inside generateImage fails (no image data, wrong aspect ratio
\* or a backend error, transient or not) before the last attempt: the
\* catch block records it and the loop sends the next request.
ImageRequestFails(transient) ==
  /\ pc = "image"
  /\ fnIn < IMAGE_REQUESTS
  /\ fnIn' = fnIn + 1
  /\ fnOut' = [fnOut EXCEPT !.answered = @ + 1,
                            !.retriedHard = @ \/ ~transient]
  /\ UNCHANGED <<fnPc, stateVars, refVars, chainVars, manualVars, obsVars>>

\* The last request of generateImage fails: it throws, and the catch block
\* of startWriting waits and calls generateImage again, or gives up.
GenerateImageThrows(transient) ==
  /\ pc = "image"
  /\ fnIn = IMAGE_REQUESTS
  /\ ImageAttemptFails
  /\ fnIn' = 1
  /\ fnOut' = [fnOut EXCEPT !.answered = @ + 1,
                            !.waits = Append(@, ImageWait(loc.attempt)),
                            !.retriedHard =
                               @ \/ (~transient /\ loc.attempt < MAX_IMAGE_ATTEMPTS)]
  /\ UNCHANGED fnPc

\* generateImage returns a 16:9 image but resizeImageTo1536x864 rejects.
NormalizeFails ==
  /\ pc = "image"
  /\ ImageAttemptFails
  /\ fnIn' = 1
  /\ fnOut' = [fnOut EXCEPT !.answered = @ + 1,
                            !.waits = Append(@, ImageWait(loc.attempt))]
  /\ UNCHANGED fnPc

\* generateImage returns a 16:9 image and it is normalised.
ImageNormalized ==
  /\ pc = "image"
  /\ ImageAccepted
  /\ fnOut' = [fnOut EXCEPT !.answered = @ + 1, !.normalized = TRUE]
  /\ UNCHANGED <<fnIn, fnPc>>

ImageNext ==
  \/ \E file \in ImageFiles : handleCsvUpload(file)
  \/ startBatchProduction
  \/ Brief
  \/ Outline
  \/ Writing
  \/ \E transient \in BOOLEAN : ImageRequestFails(transient)
  \/ \E transient \in BOOLEAN : GenerateImageThrows(transient)
  \/ NormalizeFails
  \/ ImageNormalized
  \/ Publishing
  \/ FirstOutlineTimer
  \/ WriteTimer
  \/ PublishTimer
  \/ ContinueTimer

SpecImage == ImageInit /\ [][ImageNext]_vars

(***************************************************************************)
(* improveReadability on the words of the text, one call.  A block is a    *)
(* <p> paragraph: its sentences (the pieces between ". "), each a          *)
(* sequence of naive words, whether its text holds a line break, and       *)
(* whether it ends with a period.  A plain word is a pair <<sentence,      *)
(* position>> with sentence >= 1; the connector and the words of the       *)
(* simplification table are the pairs named below.                         *)
(* Steps 5 and 6 only tidy the periods that step 2 appends.                *)
(***************************************************************************)
MaxSentences == 5

\* ', que ' between two words, and the word "que" once a split has cut
\* the connector off; words of wordSimplifications and their replacements.
Connector == <<0, 1>>
PlainQue == <<0, 2>>
Utilizar == <<0, 3>>
Usar == <<0, 4>>
Aproximadamente == <<0, 5>>
Cerca == <<0, 6>>
De == <<0, 7>>

\* /<p>(.*?)<\/p>/g: the dot matches no line break, so a paragraph whose
\* text holds one is not a match of steps 1 and 2.
MatchesParagraph(b) == ~b.multiline

\* A connector cut off from its neighbours by a split is no longer the
\* text ", que ": it stays as the plain word "que".
Detach(words, atEnd) ==
  IF words = << >> THEN words
  ELSE LET k == IF atEnd THEN Len(words) ELSE 1
       IN  IF words[k] = Connector THEN [words EXCEPT ![k] = PlainQue] ELSE words

\* Step 1: a sentence of more than 20 words becomes two at its midpoint.
RECURSIVE processedSentences(_)
processedSentences(sentences) ==
  IF sentences = << >> THEN << >>
  ELSE LET words == Head(sentences)
           midPoint == Len(words) \div 2
           firstPart == Detach(Slice(words, 0, midPoint), TRUE)
           secondPart == Detach(Slice(words, midPoint, Len(words)), FALSE)
       IN  (IF Len(words) > 20 THEN <<firstPart, secondPart>> ELSE <<words>>)
             \o processedSentences(Tail(sentences))

\* Step 2: a paragraph of more than 4 sentences becomes two paragraphs,
\* each closed by a period.
BreakParagraph(b) ==
  LET sentences == SelectSeq(b.sents, LAMBDA s : s # << >>)
      mid == (Len(sentences) + 1) \div 2
  IN  IF Len(sentences) > 4
      THEN << [multiline |-> FALSE, dot |-> TRUE, sents |-> Slice(sentences, 0, mid)],
              [multiline |-> FALSE, dot |-> TRUE,
               sents |-> Slice(sentences, mid, Len(sentences))] >>
      ELSE << b >>

\* Step 3, complexConnectors: ', que ' becomes '. ', which ends the
\* sentence there.
RECURSIVE SplitAtConnectors(_, _)
SplitAtConnectors(current, words) ==
  IF words = << >> THEN << current >>
  ELSE IF Head(words) = Connector
  THEN << current >> \o SplitAtConnectors(<< >>, Tail(words))
  ELSE SplitAtConnectors(Append(current, Head(words)), Tail(words))

RECURSIVE complexConnectors(_)
complexConnectors(sentences) ==
  IF sentences = << >> THEN << >>
  ELSE SplitAtConnectors(<< >>, Head(sentences)) \o complexConnectors(Tail(sentences))

\* Step 4, wordSimplifications.
RECURSIVE wordSimplifications(_)
wordSimplifications(words) ==
  IF words = << >> THEN << >>
  ELSE (CASE Head(words) = Utilizar -> <<Usar>>
          [] Head(words) = Aproximadamente -> <<Cerca, De>>
          [] OTHER -> <<Head(words)>>) \o wordSimplifications(Tail(words))

RECURSIVE improveReadabilityText(_)
improveReadabilityText(html) ==
  IF html = << >> THEN html
  ELSE LET b == Head(html)
           split == IF MatchesParagraph(b)
                    THEN BreakParagraph([b EXCEPT !.sents = processedSentences(@)])
                    ELSE << b >>
           rewritten ==
             [i \in DOMAIN split |->
                [split[i] EXCEPT !.sents =
                   LET s == complexConnectors(@)
                   IN  [k \in DOMAIN s |-> wordSimplifications(s[k])]]]
       IN  rewritten \o improveReadabilityText(Tail(html))

\* The sentences drawn: 2, 20 and 21 plain words, a sentence with the
\* connector, a sentence of 20 words with a word of the table.
ReadShapes == {"short", "full", "long", "que", "aprox"}

ReadSentence(s, shape) ==
  CASE shape = "short" -> [k \in 1..2 |-> <<s, k>>]
    [] shape = "full" -> [k \in 1..20 |-> <<s, k>>]
    [] shape = "long" -> [k \in 1..21 |-> <<s, k>>]
    [] shape = "que" -> << <<s, 1>>, Connector, <<s, 2>> >>
    [] shape = "aprox" -> [k \in 1..19 |-> <<s, k>>] \o <<Aproximadamente>>

ReadInit ==
  /\ AppInit
  /\ fnPc = "start"
  /\ fnOut = << >>
  /\ \E n \in 1..MaxSentences, multiline \in BOOLEAN, dot \in BOOLEAN :
       \E shapes \in [1..n -> ReadShapes] :
         fnIn = << [multiline |-> multiline, dot |-> dot,
                    sents |-> [s \in 1..n |-> ReadSentence(s, shapes[s])]] >>

ImproveReadability ==
  /\ fnPc = "start"
  /\ fnOut' = improveReadabilityText(fnIn)
  /\ fnPc' = "returned"
  /\ UNCHANGED <<fnIn, stateVars, refVars, chainVars, manualVars, obsVars>>

SpecRead == ReadInit /\ [][ImproveReadability]_vars

(***************************************************************************)
(* extractContextFromData, one call.  A text is known by its identity and  *)
(* its length in characters; the function is followed on the lengths.      *)
(***************************************************************************)
MaxChunks == 2
CONTEXT_LIMIT == 12000
FALLBACK_LIMIT == 5000
MIN_HEADING == 5
MIN_PARAGRAPH == 80

Text(id, len) == [id |-> id, len |-> len]

NoSlice(len, limit) == len

\* str.slice(0, limit), on the length.
SliceLen(len, limit) == Min(len, limit)

\* chunks.filter((v, i, a) => a.indexOf(v) === i)
RECURSIVE Unique(_, _)
Unique(seen, chunks) ==
  IF chunks = << >> THEN seen
  ELSE Unique(IF Includes(seen, Head(chunks)) THEN seen ELSE Append(seen, Head(chunks)),
              Tail(chunks))

\* chunks.join('. '), on the length.
JoinLen(chunks) ==
  IF chunks = << >> THEN 0
  ELSE SumSeq([i \in DOMAIN chunks |-> chunks[i].len]) + 2 * (Len(chunks) - 1)

PRIORITY_KEYS == {"business_name", "company_name", "brand", "service", "services",
                  "description", "business_description", "about", "objectives",
                  "target_audience", "value_proposition", "notes"}

\* walk(obj): the strings under a priority key, objects walked in place.
RECURSIVE walk(_)
walk(entries) ==
  IF entries = << >> THEN << >>
  ELSE LET e == Head(entries)
       IN  (IF e.key \in PRIORITY_KEYS /\ e.value.type = "string" THEN <<e.value.text>>
            ELSE IF e.value.type = "object" THEN walk(e.value.entries)
            ELSE << >>) \o walk(Tail(entries))

\* The length of the string extractContextFromData returns.
extractContextFromData(data) ==
  IF data.type = "string" /\ data.hasTag
  THEN LET chunks ==
             SelectSeq(data.headings, LAMBDA t : t.len > MIN_HEADING)
               \o SelectSeq(data.paragraphs, LAMBDA t : t.len > MIN_PARAGRAPH)
       IN  SliceLen(JoinLen(Unique(<< >>, chunks)), CONTEXT_LIMIT)
  ELSE IF data.type = "object"
  THEN SliceLen(JoinLen(Unique(<< >>, walk(data.entries))), CONTEXT_LIMIT)
  ELSE SliceLen(data.len, FALLBACK_LIMIT)

\* Inputs: pages, briefs and other values.
SeqsUpTo(S, n) == UNION {[1..k -> S] : k \in 0..n}

PageTexts == {Text(1, 5), Text(1, 6), Text(1, 80), Text(1, 81), Text(1, 7000), Text(2, 7000)}

Pages ==
  {[type |-> "string", hasTag |-> TRUE, headings |-> h, paragraphs |-> p] :
     h \in SeqsUpTo(PageTexts, MaxChunks), p \in SeqsUpTo(PageTexts, MaxChunks)}

BriefKeys == {"description", "id"}

LeafValues ==
  {[type |-> "string", text |-> t] : t \in {Text(1, 81), Text(1, 7000), Text(2, 7000)}}
    \cup {[type |-> "number"]}

LeafEntries == {[key |-> k, value |-> v] : k \in BriefKeys, v \in LeafValues}

BriefValues ==
  LeafValues \cup {[type |-> "object", entries |-> e] : e \in SeqsUpTo(LeafEntries, 1)}

Briefs ==
  {[type |-> "object", entries |-> e] :
     e \in SeqsUpTo({[key |-> k, value |-> v] : k \in BriefKeys, v \in BriefValues},
                    MaxChunks)}

\* A string without '<', a number, null, undefined: String(data) has len
\* characters.
OtherValues ==
  {[type |-> "string", hasTag |-> FALSE, len |-> n] : n \in {0, 4999, 5000, 5001, 13000}}
    \cup {[type |-> "null", len |-> 4], [type |-> "undefined", len |-> 9]}

ContextInit ==
  /\ AppInit
  /\ fnPc = "start"
  /\ fnOut = << >>
  /\ fnIn \in Pages \cup Briefs \cup OtherValues

ExtractContext ==
  /\ fnPc = "start"
  /\ fnOut' = extractContextFromData(fnIn)
  /\ fnPc' = "returned"
  /\ UNCHANGED <<fnIn, stateVars, refVars, chainVars, manualVars, obsVars>>

SpecContext == ContextInit /\ [][ExtractContext]_vars

(***************************************************************************)
(* extractWebsiteFromBriefHTML, one call.  The brief page is followed on   *)
(* what the two regular expressions look at: whether the label             *)
(* "¿Tienes página web?" occurs, whether a <p>...</p> follows it, and the  *)
(* pieces of that paragraph: tags (an <img> with its src, any other tag),  *)
(* plain words, and dotted names with the scheme written before them.      *)
(* A URL is the sequence of its pieces: scheme, host, ".", ending.         *)
(***************************************************************************)
MaxPieces == 2

\* (com|es|net|org|clinic|health|med|co)
DomainEndings == {"com", "es", "net", "org", "clinic", "health", "med", "co"}

Piece(kind, scheme, host, ending) ==
  [kind |-> kind, scheme |-> scheme, host |-> host, ending |-> ending]

\* .replace(/<img[\s\S]*?>/gi, "").replace(/<[^>]+>/g, ""): the tags go,
\* with everything written inside them.
StripTags(pieces) == SelectSeq(pieces, LAMBDA p : p.kind \notin {"img", "tag"})

\* /(https?:\/\/)?([a-z0-9-]+\.)+(com|...|co)\b/i matches this piece.
DomainShaped(p) == p.kind = "name" /\ p.ending \in DomainEndings

\* textOnly.match(...): the first match, << >> when there is none.
domainMatch(textOnly) ==
  LET hits == SelectSeq(textOnly, DomainShaped)
  IN  IF hits = << >> THEN << >> ELSE << Head(hits) >>

\* domain.startsWith("http") compares the characters as written.
StartsWithHttp(scheme) ==
  CASE scheme = "http://" -> TRUE
    [] scheme = "https://" -> TRUE
    [] OTHER -> FALSE

Domain(p) ==
  (IF p.scheme = "" THEN << >> ELSE <<p.scheme>>) \o <<p.host, ".", p.ending>>

Null == <<"null">>

extractWebsiteFromBriefHTML(html) ==
  IF ~(html.label /\ html.paragraph) THEN Null
  ELSE LET m == domainMatch(StripTags(html.pieces))
       IN  IF m = << >> THEN Null
           ELSE IF StartsWithHttp(m[1].scheme) THEN Domain(m[1])
           ELSE <<"https://">> \o Domain(m[1])

\* The pieces drawn for the answer paragraph.
BriefPieces ==
  { Piece("word", "", "no", ""),
    Piece("tag", "", "strong", ""),
    Piece("img", "https://", "cdn", "com"),
    Piece("name", "", "clinica", "com"),
    Piece("name", "https://", "clinica", "es"),
    Piece("name", "http://", "clinica", "com"),
    Piece("name", "HTTP://", "clinica", "com"),
    Piece("name", "", "clinica", "io") }

WebsiteInit ==
  /\ AppInit
  /\ fnPc = "start"
  /\ fnOut = << >>
  /\ \E label \in BOOLEAN, paragraph \in BOOLEAN, n \in 0..MaxPieces :
       \E pieces \in [1..n -> BriefPieces] :
         fnIn = [label |-> label, paragraph |-> paragraph, pieces |-> pieces]

ExtractWebsite ==
  /\ fnPc = "start"
  /\ fnOut' = extractWebsiteFromBriefHTML(fnIn)
  /\ fnPc' = "returned"
  /\ UNCHANGED <<fnIn, stateVars, refVars, chainVars, manualVars, obsVars>>

SpecWebsite == WebsiteInit /\ [][ExtractWebsite]_vars

(***************************************************************************)
(* parseCSVLine, one call.  A line is the sequence of its characters; a    *)
(* field is a sequence of characters too.                                  *)
(***************************************************************************)
MaxLine == 4

Quote == "\""
Comma == ","
Space == " "

\* String.prototype.trim()
RECURSIVE TrimStart(_)
TrimStart(s) == IF s # << >> /\ Head(s) = Space THEN TrimStart(Tail(s)) ELSE s

RECURSIVE TrimEnd(_)
TrimEnd(s) ==
  IF s # << >> /\ s[Len(s)] = Space THEN TrimEnd(SubSeq(s, 1, Len(s) - 1)) ELSE s

Trim(s) == TrimEnd(TrimStart(s))

EndsFieldAlways(char, insideQuotes) == char = Comma

\* char === ',' && !insideQuotes
EndsField(char, insideQuotes) == char = Comma /\ ~insideQuotes

\* The for loop from character i on, then the final push.
RECURSIVE ParseFrom(_, _, _, _)
ParseFrom(line, result, current, insideQuotes) ==
  IF line = << >> THEN Append(result, Trim(current))
  ELSE LET char == Head(line)
       IN  IF char = Quote
           THEN ParseFrom(Tail(line), result, current, ~insideQuotes)
           ELSE IF EndsField(char, insideQuotes)
           THEN ParseFrom(Tail(line), Append(result, Trim(current)), << >>, insideQuotes)
           ELSE ParseFrom(Tail(line), result, Append(current, char), insideQuotes)

parseCSVLine(line) == ParseFrom(line, << >>, << >>, FALSE)

LineChars == {"a", Comma, Quote, Space}

\* a,"b,c",d
ExampleLine == <<"a", Comma, Quote, "b", Comma, "c", Quote, Comma, "d">>

LineInit ==
  /\ AppInit
  /\ fnPc = "start"
  /\ fnOut = << >>
  /\ \/ fnIn = ExampleLine
     \/ \E n \in 0..MaxLine : fnIn \in [1..n -> LineChars]

ParseLine ==
  /\ fnPc = "start"
  /\ fnOut' = parseCSVLine(fnIn)
  /\ fnPc' = "returned"
  /\ UNCHANGED <<fnIn, stateVars, refVars, chainVars, manualVars, obsVars>>

SpecLine == LineInit /\ [][ParseLine]_vars

(***************************************************************************)
(* The file input before a batch is started: the operator may pick one     *)
(* file after another.  fnIn is the file picked last.                      *)
(***************************************************************************)
UploadLines ==
  {RawRow("acc1", <<"kw1">>, count, <<"cu11">>, << >>) : count \in {"", "abc", "0", "2"}}
    \cup {RawRow("", <<"kw1">>, "2", <<"cu11">>, << >>),
          RawRow("acc1", << >>, "2", <<"cu11">>, << >>)}

\* Files with every required column and up to MaxArticles lines, and
\* files of one line without the kw column.
UploadFiles ==
  {[headers |-> requiredColumns, lines |-> l] :
     l \in UNION {[1..n -> UploadLines] : n \in 0..MaxArticles}}
    \cup {[headers |-> requiredColumns \ {"kw"}, lines |-> l] :
            l \in UNION {[1..n -> UploadLines] : n \in 0..1}}

NoFile == [headers |-> {}, lines |-> << >>]

UploadInit ==
  /\ AppInit
  /\ fnIn = NoFile
  /\ fnOut = << >>
  /\ fnPc = "picking"

PickFile(file) ==
  /\ step = "account" /\ ~OverlayShown /\ ~batchProgress.isComplete
  /\ pc = "idle"
  /\ ReadCsv(file)
  /\ fnIn' = file
  /\ UNCHANGED <<step, isLoading, isPublishing, article, keywords, publishResult,
                 batchProgress, clientWebsite, accountMemory>>
  /\ UNCHANGED <<refVars, chainVars, manualVars, fnOut, fnPc>>
  /\ UNCHANGED <<inflight, publishLog, outlineLog, titlesGiven, trackerLog, errors>>

UploadNext == \E file \in UploadFiles : PickFile(file)

SpecUpload == UploadInit /\ [][UploadNext]_vars

(***************************************************************************)
(* One account with several articles: the run of a file of one row,        *)
(* followed through the articles of the account with a brief that names no *)
(* website, a titled outline of one section and prose without paragraphs.  *)
(***************************************************************************)
MaxTasks == 4
MaxKeywords == 3

KeywordCells(n) == [i \in 1..n |-> "kw" \o ToString(i)]

AccountFiles ==
  {[headers |-> requiredColumns,
    lines |-> << RawRow("acc1", KeywordCells(k), CountText(n), TaskIds(1, 1), << >>) >>] :
     k \in 1..MaxKeywords, n \in 2..MaxTasks}

AccountNext ==
  \/ \E file \in AccountFiles : handleCsvUpload(file)
  \/ startBatchProduction
  \/ BriefResponse("json")
  \/ FirstOutlineTimer
  \/ OutlineTimer
  \/ OutlineResponse([title |-> <<"T1">>, n |-> 1, titled |-> TRUE])
  \/ WriteTimer
  \/ SectionResponse(<< Block("raw", <<4>>, << >>) >>)
  \/ ImageResponse
  \/ PublishTimer
  \/ UploadResponse(TRUE)
  \/ CategoriesResponse
  \/ \E ok \in BOOLEAN : PostResponse(ok)
  \/ ContinueTimer

SpecAccount == Init /\ [][AccountNext]_vars

(***************************************************************************)
(* The outline stage with the answer of the text backend in view.  parsed  *)
(* is what extractJSON makes of the text: its title, whether it has a      *)
(* sections array, and for each section whether it has a title.  fnOut     *)
(* holds the parsed answer of the last request.                            *)
(***************************************************************************)
Parsed(title, hasSections, titles) ==
  [title |-> title, hasSections |-> hasSections, titles |-> titles]

\* !parsed?.sections || !Array.isArray(parsed.sections)
OutlineInvalid(parsed) == ~parsed.hasSections

\* What generateArticleOutline returns for a parsed answer it accepts.
generateArticleOutline(parsed) ==
  [title |-> parsed.title, n |-> Len(parsed.titles),
   titled |-> \A i \in DOMAIN parsed.titles : parsed.titles[i]]

BackendOutlines ==
  {Parsed(t, TRUE, s) :
     t \in {NoTitle, <<"T1">>},
     s \in {<< >>, <<FALSE>>, <<TRUE>>, <<TRUE, TRUE>>, <<TRUE, FALSE>>}}
    \cup {Parsed(t, FALSE, << >>) : t \in {NoTitle, <<"T1">>}}

\* Files of one article with 1 to MaxKeywords + 2 keywords.
OutlineFiles ==
  {[headers |-> requiredColumns,
    lines |-> << RawRow("acc1", KeywordCells(k), "1", TaskIds(1, 1), << >>) >>] :
     k \in 1..(MaxKeywords + 2)}

OutlineInit ==
  /\ AppInit
  /\ fnIn = << >>
  /\ fnOut = << >>
  /\ fnPc = "generateArticleOutline"

\* generateText answers with a text: generateArticleOutline throws on it or
\* returns the outline to proceedToOutlineCSV.
OutlineAnswered(parsed) ==
  /\ pc = "outline"
  /\ fnOut' = <<parsed>>
  /\ UNCHANGED <<fnIn, fnPc>>
  /\ IF OutlineInvalid(parsed)
     THEN OutlineRejected
     ELSE OutlineAccepted(generateArticleOutline(parsed))

\* generateText throws: the backend refused or the answer was empty.
OutlineRequestFails ==
  /\ pc = "outline"
  /\ fnOut' = << >>
  /\ UNCHANGED <<fnIn, fnPc>>
  /\ OutlineRejected

OutlineNext ==
  \/ \E file \in OutlineFiles : handleCsvUpload(file)
  \/ startBatchProduction
  \/ Brief
  \/ FirstOutlineTimer
  \/ \E parsed \in BackendOutlines : OutlineAnswered(parsed)
  \/ OutlineRequestFails
  \/ WriteTimer

SpecOutline == OutlineInit /\ [][OutlineNext]_vars

(***************************************************************************)
(* The end of a batch: two accounts of one article each, their rows        *)
(* listing 0 to MaxProdline ids of the production line, followed to the    *)
(* tracker updates whatever was published.                                 *)
(***************************************************************************)
MaxProdline == 2

TrackerFiles ==
  {[headers |-> requiredColumns \cup {"task_prodline_ids"},
    lines |-> [r \in 1..2 |->
                 RawRow(AccountNames[r], <<"kw1">>, "1", TaskIds(r, 1), ProdIds(r, n[r]))]] :
     n \in [1..2 -> 0..MaxProdline]}

TrackersNext ==
  \/ \E file \in TrackerFiles : handleCsvUpload(file)
  \/ startBatchProduction
  \/ BriefResponse("json")
  \/ FirstOutlineTimer
  \/ OutlineResponse([title |-> <<"T1">>, n |-> 1, titled |-> TRUE])
  \/ WriteTimer
  \/ SectionResponse(<< Block("raw", <<4>>, << >>) >>)
  \/ ImageResponse
  \/ PublishTimer
  \/ UploadResponse(TRUE)
  \/ CategoriesResponse
  \/ \E ok \in BOOLEAN : PostResponse(ok)
  \/ ContinueTimer
  \/ NextAccountTimer
  \/ Trackers

\* Every timer fires and every awaited call is answered.
SpecTrackers == Init /\ [][TrackersNext]_vars /\ WF_vars(TrackersNext)

(***************************************************************************)
(* Two accounts whose briefs differ: the brief of the first names a        *)
(* website, the brief of the second is JSON or names none.  Outlines have  *)
(* two sections and the prose has paragraphs, so that an article written   *)
(* with a website gets its three links.                                    *)
(***************************************************************************)
BriefFiles ==
  {[headers |-> requiredColumns,
    lines |-> [r \in 1..2 |->
                 RawRow(AccountNames[r], <<"kw1">>, CountText(n[r]), TaskIds(r, n[r]), << >>)]] :
     n \in [1..2 -> 1..MaxArticles]}

BriefsNext ==
  \/ \E file \in BriefFiles : handleCsvUpload(file)
  \/ startBatchProduction
  \/ currentAccountRef = 0 /\ BriefResponse("html-website")
  \/ currentAccountRef = 1 /\ \E answer \in {"json", "html-no-website"} : BriefResponse(answer)
  \/ FirstOutlineTimer
  \/ OutlineTimer
  \/ OutlineResponse([title |-> <<"T1">>, n |-> 2, titled |-> TRUE])
  \/ WriteTimer
  \/ SectionResponse(<< Para(<<16>>), Para(<<3, 3, 3, 3, 3, 3>>) >>)
  \/ ImageResponse
  \/ PublishTimer
  \/ UploadResponse(TRUE)
  \/ CategoriesResponse
  \/ \E ok \in BOOLEAN : PostResponse(ok)
  \/ ContinueTimer
  \/ NextAccountTimer

SpecBriefs == Init /\ [][BriefsNext]_vars

(***************************************************************************)
(* Properties.                                                             *)
(***************************************************************************)
NonEmptyParagraphs(sections) ==
  SumSeq([s \in DOMAIN sections |->
            Cardinality({i \in ParagraphIdx(sections[s].content) :
                           SumSeq(sections[s].content[i].sents) > 0})])

\* C1: when the sections hold at least three non-empty <p> paragraphs (and
\* no anchor of their own), however the paragraphs are spread over the
\* sections, the returned sections hold exactly three anchors.
C1_ExactlyThreeLinks ==
  (fnPc = "returned" /\ NonEmptyParagraphs(fnIn) >= 3 /\ TotalAnchors(fnIn) = 0)
    => TotalAnchors(fnOut) = 3

\* startWriting threw on the link count of the article the chain holds.
GateFailed ==
  /\ pc = "stopped"
  /\ loc.websiteUrl # NoWebsite
  /\ loc.art.sections # << >>
  /\ ~HasEmptySection(loc.art.sections)
  /\ TotalAnchors(loc.art.sections) < 3

\* C2: every article the chain hands to publish has content in every
\* section and, when the account has a website, at least three anchors; an
\* article that ends with fewer makes startWriting throw: it is never
\* completed and never handed to publish.
C2_PublishGate ==
  /\ \A i \in DOMAIN publishLog :
       /\ ~publishLog[i].empty
       /\ publishLog[i].site => publishLog[i].anchors >= 3
  /\ GateFailed =>
       /\ "write" \in errors
       /\ ~loc.art.featuredImage
       /\ article.tag = loc.art.tag => ~article.featuredImage
       /\ \A i \in DOMAIN publishLog : publishLog[i].tag # loc.art.tag

C2_Witness == GateFailed /\ \E i \in DOMAIN publishLog : publishLog[i].site

\* C3: what proceedToOutlineCSV reads (article number, account id, the
\* account's earlier titles) is the value last written, not the value of
\* an older render.
C3_ReadsLatest ==
  pc = "outline" =>
    /\ loc.articleNumber = OutlineReads(Render).articleNumber
    /\ loc.accountUuid = OutlineReads(Render).accountUuid
    /\ loc.previousTitles = OutlineReads(Render).previousTitles

StoppingFailures == {"brief", "outline", "write", "continue"}

Attempts(r) == Cardinality({i \in DOMAIN publishLog : publishLog[i].tag[1] = r})

\* C5: isComplete is set only when every row of the file has had exactly
\* task_count publish attempts, and never in a run that a failure stopped.
C5_CompleteOnlyAfterAll ==
  batchProgress.isComplete =>
    /\ \A r \in DOMAIN snap.csvRows : Attempts(r) = snap.csvRows[r].task_count
    /\ errors \cap StoppingFailures = {}
    /\ pc # "stopped"

C5_Witness ==
  batchProgress.isComplete /\ Len(snap.csvRows) = 2 /\ "publish" \in errors

TotalTasks == SumSeq([r \in DOMAIN snap.csvRows |-> snap.csvRows[r].task_count])

ExampleRows == ParseRows(FileOf(<<2>>, {}).lines)

ExampleDone ==
  /\ pc = "done" /\ errors = {}
  /\ snap.csvRows = ExampleRows
  /\ clientWebsiteRef # NoWebsite

\* C6: a started run in which nothing fails eventually is complete with as
\* many URLs as the file asks articles; for one row with task_count 2, a
\* website and two tracker ids that is 2 URLs, at least 3 anchors in each
\* article and 2 tracker tasks marked complete.
C6_AllSuccessCompletes ==
  /\ (pc # "idle") ~> (errors # {}
                         \/ (pc = "done" /\ batchProgress.isComplete
                               /\ Len(publishedUrlsRef) = TotalTasks))
  /\ [](ExampleDone =>
          /\ Len(publishedUrlsRef) = 2
          /\ \A i \in DOMAIN publishLog : publishLog[i].anchors >= 3
          /\ loc.successCount = 2)

C6_Witness == ExampleDone /\ loc.successCount = 2 /\ Len(publishLog) = 2

\* C7: publish attempts come in strictly increasing (row, article) order
\* without gaps: the first is (1, 1), and after (r, n) comes (r, n + 1)
\* while n is below the row's task_count, else (r + 1, 1).
C7_PublishOrder ==
  \A i \in DOMAIN publishLog :
    LET tag == publishLog[i].tag
    IN  /\ tag[1] \in DOMAIN snap.csvRows
        /\ tag[2] <= snap.csvRows[tag[1]].task_count
        /\ IF i = 1 THEN tag = <<1, 1>>
           ELSE LET prev == publishLog[i - 1].tag
                IN  IF prev[2] < snap.csvRows[prev[1]].task_count
                    THEN tag = <<prev[1], prev[2] + 1>>
                    ELSE tag = <<prev[1] + 1, 1>>

C7_Witness ==
  Len(publishLog) = 2 /\ publishLog[2].tag = <<2, 1>> /\ "publish" \in errors

\* C8: at most one collaborator call is outstanding at any time, whatever
\* the operator clicks while a batch runs.
C8_OneStepInFlight == Cardinality(inflight) <= 1

\* C9: the title proceedToOutlineCSV settles on differs from every title
\* already given to an article of the same account in this run.
C9_TitlesDiffer ==
  [][(pc = "outline" /\ pc' = "wait_write") =>
       <<snap.csvRows[loc.row].account_uuid, article'.title>> \notin titlesGiven]_vars

UrlCalls == SelectSeq(trackerLog, LAMBDA e : e.op = "url")

RECURSIVE AllTaskIds(_)
AllTaskIds(rows) ==
  IF rows = << >> THEN << >>
  ELSE SplitList(Head(rows).task_clickup_ids) \o AllTaskIds(Tail(rows))

\* C10: the k-th tracker id processed gets the k-th URL; no URL goes to two
\* tasks and no task gets two URLs; once the URLs are used up no further
\* task is called.
C10_PositionalUrls ==
  LET calls == UrlCalls
      ids == AllTaskIds(snap.csvRows)
  IN  /\ Len(calls) <= Len(publishedUrlsRef)
      /\ Len(calls) <= Len(ids)
      /\ \A k \in DOMAIN calls :
           calls[k].url = publishedUrlsRef[k] /\ calls[k].task = ids[k]
      /\ \A j, k \in DOMAIN calls :
           j # k => calls[j].url # calls[k].url /\ calls[j].task # calls[k].task
      /\ pc \in {"wait_prodline", "prodline", "done"} =>
           Len(calls) = Min(Len(publishedUrlsRef), Len(ids))

C10_Witness ==
  pc = "done" /\ Len(UrlCalls) = 1 /\ Len(AllTaskIds(snap.csvRows)) = 2

\* C11: every URL-set call is followed by the completion call for the same
\* task, whether the URL-set succeeded or not.
C11_CompleteAlwaysAttempted ==
  \A k \in DOMAIN trackerLog :
    (trackerLog[k].op = "url" /\ (k < Len(trackerLog) \/ pc # "clickup_url")) =>
      /\ k < Len(trackerLog)
      /\ trackerLog[k + 1].op = "complete"
      /\ trackerLog[k + 1].task = trackerLog[k].task

\* The claim's own reading of a transient error.
Transient(outcome) ==
  \E i \in DOMAIN outcome.error :
    outcome.error[i] \in {"429", "quota", "Quota", "timeout", "Timeout", "503",
                          "unavailable", "UNAVAILABLE"}

\* C12: fn() is called at most 3 times; a further call follows only a
\* transient failure, after a sleep of 1000 * 2^(k-1) ms for failed attempt
\* k; the first success is returned at once; a non-transient error, or the
\* third failure, is thrown as it is.
C12_RetryPolicy ==
  LET o == fnOut.outcomes
      n == Len(o)
  IN  /\ n <= 3
      /\ \A k \in 1..(n - 1) : ~o[k].ok /\ Transient(o[k])
      /\ fnPc = "call" =>
           /\ fnOut.attempt = n + 1
           /\ fnOut.sleeps = [k \in 1..n |-> 1000 * Pow(2, k - 1)]
      /\ fnPc = "returned" =>
           /\ o[n].ok /\ fnOut.result = <<o[n]>>
           /\ fnOut.sleeps = [k \in 1..(n - 1) |-> 1000 * Pow(2, k - 1)]
      /\ fnPc = "threw" =>
           /\ ~o[n].ok /\ fnOut.result = <<o[n]>>
           /\ n = 3 \/ ~Transient(o[n])
           /\ fnOut.sleeps = [k \in 1..(n - 1) |-> 1000 * Pow(2, k - 1)]

C12_Witness ==
  /\ fnPc = "threw" /\ Len(fnOut.outcomes) = 3
  /\ fnOut.sleeps = <<1000, 2000>>

\* C13: for one article the image backend is asked at most 3 times, and no
\* request follows a non-transient error.
C13_ImageRequestsBounded == ImageRequests <= 3 /\ ~fnOut.retriedHard

\* Every attempt of startWriting to get an image has failed.
ImageExhausted == pc = "stopped" /\ loc.attempt = MAX_IMAGE_ATTEMPTS

\* C14: startWriting asks for no further image once one was normalised;
\* after its failed attempt k it waits 800 * k ms; it gives up only after
\* its last attempt, and then it throws: the failure is reported, no
\* article with an image is returned or stored, nothing is handed to
\* publish and nothing stays in flight.
C14_ImageMandatory ==
  /\ [](/\ pc = "image" =>
             /\ ~fnOut.normalized
             /\ fnOut.waits = [k \in 1..(loc.attempt - 1) |-> 800 * k]
        /\ ImageExhausted =>
             /\ fnOut.waits = [k \in 1..MAX_IMAGE_ATTEMPTS |-> 800 * k]
             /\ ~fnOut.normalized
             /\ "write" \in errors /\ "write" \in alerts
             /\ ~loc.art.featuredImage /\ ~article.featuredImage
             /\ publishLog = << >>
             /\ inflight = {} /\ ~isLoading)
  /\ [][/\ fnOut.normalized => fnOut' = fnOut
        /\ (pc = "image" /\ pc' # "image") =>
             \/ fnOut'.normalized /\ article'.featuredImage /\ pc' = "wait_publish"
             \/ /\ loc.attempt = MAX_IMAGE_ATTEMPTS /\ pc' = "stopped"
                /\ article' = article /\ publishLog' = publishLog
        /\ ImageExhausted => (pc' = "stopped" /\ publishLog' = publishLog
                                /\ article' = article)]_vars

C14_Witness == ImageExhausted /\ Len(fnOut.waits) = 3 /\ fnOut.answered = 5

RECURSIVE ContentAnchors(_)
ContentAnchors(content) ==
  IF content = << >> THEN << >>
  ELSE Head(content).links \o ContentAnchors(Tail(content))

RECURSIVE SectionsAnchors(_)
SectionsAnchors(sections) ==
  IF sections = << >> THEN << >>
  ELSE ContentAnchors(Head(sections).content) \o SectionsAnchors(Tail(sections))

\* The anchors the inserter put in, in document order, and their hrefs.
InsertedAnchors(sections) == SelectSeq(SectionsAnchors(sections), LAMBDA a : ~a.ext)
InsertedHrefs(sections) ==
  LET anchors == InsertedAnchors(sections)
  IN  [i \in DOMAIN anchors |-> anchors[i].href]

\* The hrefs a pass added, in the order of its insertions (section order).
AddedBy(before, after) ==
  LET old == Range(InsertedHrefs(before))
  IN  SelectSeq(InsertedHrefs(after), LAMBDA h : h \notin old)

\* The hrefs in the order in which the four passes inserted them.
InsertionOrder(sections, links) ==
  LET p0 == [sections |-> sections, count |-> 0]
      p1 == RunPass(p0, links, 1)
      p2 == RunPass(p1, links, 2)
      p3 == RunPass(p2, links, 3)
      p4 == RunPass(p3, links, 4)
  IN  AddedBy(p0.sections, p1.sections) \o AddedBy(p1.sections, p2.sections)
        \o AddedBy(p2.sections, p3.sections) \o AddedBy(p3.sections, p4.sections)

\* C15: the hrefs inserted are the first m links, in the order L1, L2, L3
\* of insertion, each used once, where m <= 3 is the number of insertions.
C15_LinksInOrder ==
  fnPc = "returned" =>
    LET hrefs == InsertedHrefs(fnOut)
        order == InsertionOrder(fnIn, TestLinks)
        m == Len(hrefs)
    IN  /\ m <= 3
        /\ Range(hrefs) = {TestLinks[k] : k \in 1..m}
        /\ \A i, j \in 1..m : i # j => hrefs[i] # hrefs[j]
        /\ order = SubSeq(TestLinks, 1, m)

C15_Witness ==
  /\ fnPc = "returned"
  /\ InsertedHrefs(fnOut) = <<TestLinks[2], TestLinks[1]>>

\* The <p> paragraphs of the input.
ParagraphsIn(content) == {i \in DOMAIN content : content[i].kind = "p"}
Paragraphs(sections) ==
  SumSeq([s \in DOMAIN sections |-> Cardinality(ParagraphsIn(sections[s].content))])

\* C16: sections without any <p> paragraph come back unchanged, with no
\* anchor inserted; the number of anchors inserted never exceeds the number
\* of <p> paragraphs of the input.
C16_NoParagraphNoLink ==
  fnPc = "returned" =>
    /\ Len(fnOut) = Len(fnIn)
    /\ Len(InsertedAnchors(fnOut)) <= Paragraphs(fnIn)
    /\ \A s \in DOMAIN fnIn :
         ParagraphsIn(fnIn[s].content) = {} => fnOut[s] = fnIn[s]

C16_Witness ==
  /\ fnPc = "returned" /\ Len(fnIn) = 2
  /\ Paragraphs(fnIn) = 1 /\ Len(fnIn[1].content) = 2
  /\ ParagraphsIn(fnIn[1].content) = {}
  /\ Len(InsertedAnchors(fnOut)) = 1

\* Is part the run of entries of whole that starts after the first from?
IsSlice(part, whole, from) ==
  from + Len(part) <= Len(whole) /\ part = Slice(whole, from, from + Len(part))

\* C17: every anchor the inserter put in has a non-empty text made of plain
\* words (words of its paragraph's tag-free text, or one of the fixed
\* phrases of pass 4), target="_blank" and rel="noopener noreferrer".
C17_AnchorsWellFormed ==
  fnPc = "returned" =>
    \A s \in DOMAIN fnOut : \A i \in DOMAIN fnOut[s].content :
      LET b == fnOut[s].content[i]
      IN  \A k \in DOMAIN b.links :
            ~b.links[k].ext =>
              /\ b.links[k].text # << >>
              /\ \/ IsSlice(b.links[k].text, ParagraphWords(b), Len(b.links[k].before))
                 \/ \E n \in DOMAIN anchorTexts : b.links[k].text = anchorTexts[n]
              /\ b.links[k].target = "_blank"
              /\ b.links[k].rel = "noopener noreferrer"

C17_Witness ==
  /\ fnPc = "returned"
  /\ \E i, j \in DOMAIN InsertedAnchors(fnOut) :
       /\ InsertedAnchors(fnOut)[i].cta = 0
       /\ InsertedAnchors(fnOut)[j].cta > 0
       /\ Len(InsertedAnchors(fnOut)[i].text) = 7

RECURSIVE Flatten(_)
Flatten(seqs) == IF seqs = << >> THEN << >> ELSE Head(seqs) \o Flatten(Tail(seqs))

\* All sentences of a text, paragraph after paragraph.
SentencesOf(html) == Flatten([i \in DOMAIN html |-> html[i].sents])

\* The words of a text once the connector is dropped and the table words
\* are replaced.
RewrittenWords(words) ==
  wordSimplifications(SelectSeq(words, LAMBDA w : w # Connector))

\* C18: a paragraph of more than 20 naive words comes out as at least two
\* sentences, none longer than the paragraph was, with its words in their
\* original order.
C18_LongParagraphSplit ==
  (fnPc = "returned" /\ Len(Flatten(fnIn[1].sents)) > 20) =>
    LET out == SentencesOf(fnOut)
    IN  /\ Len(out) >= 2
        /\ \A k \in DOMAIN out : Len(out[k]) <= Len(Flatten(fnIn[1].sents))
        /\ Flatten(out) = RewrittenWords(Flatten(fnIn[1].sents))

\* The paragraphs have at most 4 sentences of at most 20 words each.
WithinCaps(html) ==
  \A i \in DOMAIN html :
    /\ Len(html[i].sents) <= 4
    /\ \A k \in DOMAIN html[i].sents : Len(html[i].sents[k]) <= 20

\* C19: for a text within the caps, improving the improved text changes
\* nothing.
C19_Idempotent ==
  (fnPc = "returned" /\ WithinCaps(fnIn)) => improveReadabilityText(fnOut) = fnOut

\* C20: the string extractContextFromData returns has at most 12,000
\* characters for a page, a brief object or any other value; any other
\* value is stringified and cut to 5,000 characters.
C20_ContextBounded ==
  fnPc = "returned" =>
    /\ fnOut <= 12000
    /\ (fnIn.type # "object" /\ ~(fnIn.type = "string" /\ fnIn.hasTag)) =>
         (fnOut <= 5000 /\ (fnIn.len <= 5000 => fnOut = fnIn.len))

C20_Witness ==
  /\ fnPc = "returned" /\ fnOut = 12000
  /\ fnIn.type = "object"

\* The answer paragraph, tags aside, holds a dotted name with one of the
\* endings.
HoldsDomain(html) ==
  \E i \in DOMAIN html.pieces :
    html.pieces[i].kind = "name" /\ html.pieces[i].ending \in DomainEndings

\* C21: extractWebsiteFromBriefHTML returns null when the label or its
\* answer paragraph is absent or the answer holds no domain-shaped text,
\* and otherwise a URL that begins with https://, whether the domain was
\* written bare or with a scheme.
C21_HttpsOrNull ==
  fnPc = "returned" =>
    IF fnIn.label /\ fnIn.paragraph /\ HoldsDomain(fnIn)
    THEN fnOut # Null /\ fnOut[1] = "https://"
    ELSE fnOut = Null

\* Is position i of the line outside quotes: an even number of double
\* quotes stands before it.
OutsideQuotes(line, i) ==
  Cardinality({j \in 1..(i - 1) : line[j] = Quote}) % 2 = 0

CommasOutside(line) ==
  Cardinality({i \in DOMAIN line : line[i] = Comma /\ OutsideQuotes(line, i)})

CommasInside(line) ==
  Cardinality({i \in DOMAIN line : line[i] = Comma /\ ~OutsideQuotes(line, i)})

CommasInFields(fields) ==
  SumSeq([k \in DOMAIN fields |->
            Cardinality({i \in DOMAIN fields[k] : fields[k][i] = Comma})])

\* C22: parseCSVLine returns 1 + (commas outside quotes) fields; no field
\* holds a double quote; the commas inside quotes are all kept in the
\* fields; the line a,"b,c",d gives the fields a / b,c / d.
C22_QuotedCommas ==
  fnPc = "returned" =>
    /\ Len(fnOut) = 1 + CommasOutside(fnIn)
    /\ \A k \in DOMAIN fnOut : \A i \in DOMAIN fnOut[k] : fnOut[k][i] # Quote
    /\ CommasInFields(fnOut) = CommasInside(fnIn)
    /\ fnIn = ExampleLine => fnOut = << <<"a">>, <<"b", Comma, "c">>, <<"d">> >>

C22_Witness ==
  fnPc = "returned" /\ fnIn = ExampleLine /\ Len(fnOut) = 3 /\ fnOut[2] = <<"b", Comma, "c">>

\* The task_count the claim gives a cell text.
ClaimedCount(text) ==
  IF \E n \in 1..4 : CountText(n) = text
  THEN CHOOSE n \in 1..4 : CountText(n) = text
  ELSE 1

HasUuidAndKw(line) == line.account_uuid # "" /\ line.kw # << >>

\* C23: every row of csvRows has an account_uuid, a kw and an integer
\* task_count >= 1; a file whose header lacks a required column leaves
\* csvRows as it was; a file taken in leaves its lines that have an
\* account_uuid and a kw, in order, with task_count 1 where the cell is
\* missing, not a number or not positive.
C23_ValidRows ==
  /\ [](\A r \in DOMAIN csvRows :
          /\ csvRows[r].account_uuid # ""
          /\ csvRows[r].kw # << >>
          /\ csvRows[r].task_count \in Nat /\ csvRows[r].task_count >= 1)
  /\ [][/\ requiredColumns \ fnIn'.headers # {} =>
             /\ csvRows' = csvRows
             /\ "csv-columns" \in alerts' \/ fnIn'.lines = << >>
        /\ (requiredColumns \subseteq fnIn'.headers
              /\ \E i \in DOMAIN fnIn'.lines : HasUuidAndKw(fnIn'.lines[i])) =>
             LET kept == SelectSeq(fnIn'.lines, HasUuidAndKw)
             IN  /\ Len(csvRows') = Len(kept)
                 /\ \A r \in DOMAIN kept :
                      /\ csvRows'[r].account_uuid = kept[r].account_uuid
                      /\ csvRows'[r].kw = kept[r].kw
                      /\ csvRows'[r].task_count = ClaimedCount(kept[r].task_count)]_vars

C23_Witness ==
  /\ Len(csvRows) = 2 /\ csvRows[1].task_count = 1 /\ csvRows[2].task_count = 2
  /\ "kw" \notin fnIn.headers /\ Len(fnIn.lines) = 1

\* Steps of the run: a batch is started, an account's brief is taken in,
\* publish returns to autoPublish.
BatchStarts == pc = "idle" /\ pc' # "idle"
AccountLoaded == pc = "brief" /\ pc' = "wait_outline_first"
PublishAttempted == pc \in {"categories", "post"} /\ pc' = "wait_continue"

\* C24: currentArticleRef becomes 0 when a batch starts and when an account
\* is loaded, and is set to 0 by no other step; any other change is +1, made
\* when a publish attempt returns; at every continuation decision
\* 0 < currentArticle <= task_count of the current account.
C24_CounterPerAccount ==
  /\ [][/\ (BatchStarts \/ AccountLoaded) => currentArticleRef' = 0
        /\ PublishAttempted => currentArticleRef' = currentArticleRef + 1
        /\ currentArticleRef' # currentArticleRef =>
             \/ currentArticleRef' = 0 /\ (BatchStarts \/ AccountLoaded)
             \/ currentArticleRef' = currentArticleRef + 1 /\ PublishAttempted]_vars
  /\ [](pc = "wait_continue" =>
          /\ loc.newCurrentArticle = currentArticleRef
          /\ 0 < currentArticleRef
          /\ currentArticleRef <= snap.csvRows[currentAccountRef].task_count
          /\ totalArticlesRef = snap.csvRows[currentAccountRef].task_count)

C24_Witness ==
  /\ pc = "wait_continue" /\ currentAccountRef = 2 /\ currentArticleRef = 1
  /\ Len(publishLog) = 2

\* Where the publish attempt for a URL stands in the order of attempts.
AttemptOf(url) == CHOOSE i \in DOMAIN publishLog : publishLog[i].tag = url

\* C25: once a batch runs, publishedUrlsRef changes only when a publish
\* succeeds, and then by getting the returned URL as its new last element
\* while the article counter goes up by 1; entries are never removed,
\* replaced or reordered, so the URLs stand in the order of their publish
\* attempts.
C25_UrlsAppendOnly ==
  /\ [][/\ (PublishAttempted /\ publishResult'.success) =>
             /\ publishedUrlsRef' = Append(publishedUrlsRef, publishResult'.url)
             /\ currentArticleRef' = currentArticleRef + 1
        /\ (pc # "idle" /\ publishedUrlsRef' # publishedUrlsRef) =>
             /\ PublishAttempted /\ publishResult'.success
             /\ Len(publishedUrlsRef') = Len(publishedUrlsRef) + 1
             /\ SubSeq(publishedUrlsRef', 1, Len(publishedUrlsRef)) = publishedUrlsRef]_vars
  /\ [](/\ \A i \in DOMAIN publishedUrlsRef :
             \E k \in DOMAIN publishLog : publishLog[k].tag = publishedUrlsRef[i]
        /\ \A i, j \in DOMAIN publishedUrlsRef :
             i < j => AttemptOf(publishedUrlsRef[i]) < AttemptOf(publishedUrlsRef[j]))

C25_Witness ==
  /\ publishedUrlsRef = << <<1, 1>>, <<1, 3>> >>
  /\ currentArticleRef = 3 /\ pc = "wait_continue"

\* C26: every URL handed to the tracker goes to a task id listed in the
\* row of the file whose account produced the URL.
C26_UrlToOwnRow ==
  \A k \in DOMAIN trackerLog :
    trackerLog[k].op = "url" =>
      Includes(SplitList(snap.csvRows[trackerLog[k].url[1]].task_clickup_ids),
               trackerLog[k].task)

\* A list turned left by c places, modulo its length.
TurnedLeft(list, c) ==
  [i \in DOMAIN list |-> list[((i - 1 + c) % Len(list)) + 1]]

\* C27: after c completed articles of an account (1 <= c < task_count)
\* autoContinue hands on the original keywords turned left by c places
\* modulo their number, so the primary keyword is original[c mod length];
\* the outline is asked with that list; the original list stays as the
\* brief step stored it.
C27_KeywordRotation ==
  /\ [][(pc = "wait_continue" /\ pc' = "wait_outline") =>
          LET c == loc.newCurrentArticle
              original == originalKeywordsRef
          IN  /\ 1 <= c /\ c < snap.csvRows[currentAccountRef].task_count
              /\ loc'.kws = TurnedLeft(original, c)
              /\ loc'.kws[1] = original[(c % Len(original)) + 1]
              /\ keywords' = loc'.kws
              /\ originalKeywordsRef' = original]_vars
  /\ [](pc \in {"wait_outline", "outline"} =>
          /\ loc.kws = TurnedLeft(originalKeywordsRef, currentArticleRef)
          /\ originalKeywordsRef =
               Slice(SplitList(snap.csvRows[currentAccountRef].kw), 0, 5))

C27_Witness ==
  /\ pc = "outline" /\ currentArticleRef = 3
  /\ originalKeywordsRef = <<"kw1", "kw2">>
  /\ loc.kws = <<"kw2", "kw1">>

\* C28: the outline of the n-th article of an account is requested with
\* content type on-page (n = 1), comprehensive-guide (n = 2), quick-tips
\* (n = 3) or deep-dive (n >= 4).
C28_ContentTypeByIndex ==
  \A i \in DOMAIN outlineLog :
    LET n == outlineLog[i].tag[2]
    IN  outlineLog[i].contentType =
          (CASE n = 1 -> "on-page"
             [] n = 2 -> "comprehensive-guide"
             [] n = 3 -> "quick-tips"
             [] OTHER -> "deep-dive")

\* The sections of the backend's answer are missing, empty, or one of them
\* has no title.
SectionsUnusable(parsed) ==
  \/ ~parsed.hasSections
  \/ parsed.titles = << >>
  \/ \E i \in DOMAIN parsed.titles : ~parsed.titles[i]

\* C29: when the backend's answer has missing, empty or untitled sections,
\* the chain goes on to writing with a fallback outline: one section per
\* keyword, at most 4, with ids 1..n and no content; no failure is raised.
C29_FallbackOutline ==
  [][(pc = "outline" /\ pc' # "outline" /\ fnOut' # << >>
        /\ SectionsUnusable(fnOut'[1])) =>
       /\ pc' = "wait_write"
       /\ errors' = errors
       /\ Len(article'.sections) = Min(Len(loc.kws), 4)
       /\ \A i \in DOMAIN article'.sections :
            article'.sections[i].id = i /\ article'.sections[i].content = << >>
       /\ loc'.art = article']_vars

\* The article being published has an image and its media upload was
\* rejected: the post request is out without a media id.
UploadRejected == pc = "post" /\ loc.art.featuredImage /\ loc.mediaId = 0

\* C30: an article whose media upload was rejected is not reported as
\* published and adds no URL to publishedUrlsRef.
C30_RejectedUploadNotCounted ==
  [][UploadRejected =>
       /\ ~publishResult'.success
       /\ publishedUrlsRef' = publishedUrlsRef
       /\ batchProgress'.publishedUrls = batchProgress.publishedUrls]_vars

\* The ids the production line was called for, in call order, and the ids
\* the rows of the file list, in file order.
ProdlineCalls ==
  LET calls == SelectSeq(trackerLog, LAMBDA e : e.op = "prodline")
  IN  [k \in DOMAIN calls |-> calls[k].task]

RECURSIVE AllProdlineIds(_)
AllProdlineIds(rows) ==
  IF rows = << >> THEN << >>
  ELSE SplitList(Head(rows).task_prodline_ids) \o AllProdlineIds(Tail(rows))

\* C31: once the batch is complete the production line is called exactly
\* once for every id of every row, in file order, whatever was published
\* and however the primary tracker and the earlier ids answered; a
\* complete batch always gets there.
C31_ProdlineEveryId ==
  /\ [](LET calls == ProdlineCalls
            ids == AllProdlineIds(snap.csvRows)
        IN  /\ Len(calls) <= Len(ids)
            /\ calls = SubSeq(ids, 1, Len(calls))
            /\ calls # << >> => batchProgress.isComplete
            /\ pc = "done" => calls = ids)
  /\ (batchProgress.isComplete ~> pc = "done")

C31_Witness ==
  /\ pc = "done" /\ Len(ProdlineCalls) = 3
  /\ publishedUrlsRef = << >>
  /\ "prodline" \in errors /\ loc.prodlineCount = 2

\* The ids and titles of an article's sections, in order.
SectionHeads(art) == [i \in DOMAIN art.sections |-> <<art.sections[i].id, art.sections[i].title>>]

\* The request for a section has failed: the chain stopped in the section
\* loop with its locals as they were.
SectionRequestFailed == pc = "section" /\ pc' = "stopped" /\ loc' = loc

\* C32: startWriting asks for the prose of the sections in outline order,
\* one at a time: while section i+1 is requested, sections 1..i have their
\* prose and the later ones have none.  When a request fails no later
\* section, no link insertion and no image are asked for and the error
\* ends the chain.  Writing never changes the number, order, ids or titles
\* of the sections; a completed article has every section written.
C32_SectionsInOrder ==
  /\ [](/\ pc = "section" =>
             /\ loc.i < Len(loc.art.sections)
             /\ \A k \in DOMAIN loc.art.sections :
                  (k <= loc.i) <=> (loc.art.sections[k].content # << >>)
             /\ inflight = {<<"chain", "section">>}
        /\ pc = "wait_publish" =>
             /\ \A k \in DOMAIN loc.art.sections :
                  loc.art.sections[k].id = k /\ loc.art.sections[k].content # << >>
             /\ article.sections = loc.art.sections)
  /\ [][/\ (pc = "wait_write" /\ pc' = "section") => loc'.i = 0
        /\ (pc = "section" /\ pc' = "section") => loc'.i = loc.i + 1
        /\ (pc = "section" /\ pc' = "image") => loc.i + 1 = Len(loc.art.sections)
        /\ (pc = "section" /\ pc' \notin {"section", "image"}) =>
             /\ pc' = "stopped" /\ "write" \in errors' /\ "write" \in alerts'
             /\ inflight' = {} /\ ~isLoading'
        /\ SectionRequestFailed =>
             /\ TotalAnchors(loc'.art.sections) = 0
             /\ ~loc'.art.featuredImage /\ ~article'.featuredImage
             /\ publishLog' = publishLog
        /\ pc \in {"wait_write", "section", "image"} =>
             SectionHeads(loc'.art) = SectionHeads(loc.art)]_vars

C32_Witness ==
  /\ pc = "stopped" /\ "write" \in errors /\ loc.i = 1
  /\ Len(loc.art.sections) = 2
  /\ loc.art.sections[1].content # << >> /\ loc.art.sections[2].content = << >>
  /\ loc.websiteUrl # NoWebsite

\* C33: the prompt and the alt text of the featured image name the primary
\* keyword of the article being assembled, the first of that article's
\* primaryKeywords, also for the later articles of an account whose
\* keywords have been rotated.
C33_ImageNamesOwnKeyword ==
  (loc.art.featuredImage /\ loc.art.primaryKeywords # << >>) =>
     loc.art.altKeyword = loc.art.primaryKeywords[1]

\* The anchors pass 1 spliced into the returned sections, each with the
\* paragraph of the input it was put in: passes 2 and 3 skip a section that
\* holds a link, so a spliced anchor in a paragraph of 15 words or more is
\* always the one of pass 1.
Pass1Anchors ==
  {[anchor |-> fnOut[s].content[i].links[k], para |-> fnIn[s].content[i]] :
     <<s, i, k>> \in
       {t \in (DOMAIN fnOut) \X (1..MaxBlocks) \X (1..2) :
          /\ t[2] \in DOMAIN fnOut[t[1]].content
          /\ t[3] \in DOMAIN fnOut[t[1]].content[t[2]].links
          /\ ~fnOut[t[1]].content[t[2]].links[t[3]].ext
          /\ fnOut[t[1]].content[t[2]].links[t[3]].cta = 0
          /\ Len(ParagraphWords(fnIn[t[1]].content[t[2]])) >= 15}}

\* C34: in a paragraph of n >= 15 words, the anchor of pass 1 starts at
\* word floor(n/2) - 3, is 5 to 8 words long, and before + anchor + after
\* are exactly the words of the paragraph's tag-free text.
C34_Pass1Anchor ==
  fnPc = "returned" =>
    \A a \in Pass1Anchors :
      LET n == Len(ParagraphWords(a.para))
      IN  /\ Len(a.anchor.before) = (n \div 2) - 3
          /\ Len(a.anchor.text) \in 5..8
          /\ a.anchor.before \o a.anchor.text \o a.anchor.after = ParagraphWords(a.para)

C34_Witness ==
  /\ fnPc = "returned"
  /\ \E a, b \in Pass1Anchors :
       /\ Len(ParagraphWords(a.para)) = 15 /\ Len(a.anchor.before) = 4
       /\ Len(ParagraphWords(b.para)) = 16 /\ Len(b.anchor.before) = 5
       /\ BlockHasLink(b.para)

\* The pass that put an inserted anchor in: pass 4 uses a fixed phrase,
\* passes 1, 2 and 3 take 7, 5 and 4 words of the paragraph.
PassOf(a) ==
  IF a.cta > 0 THEN 4
  ELSE IF Len(a.text) = 7 THEN 1 ELSE IF Len(a.text) = 5 THEN 2 ELSE 3

\* The anchors inserted into one block, and into one section by one pass.
InsertedIn(b) == SelectSeq(b.links, LAMBDA a : ~a.ext)
InsertedByPass(section, pass) ==
  SelectSeq(InsertedAnchors(<<section>>), LAMBDA a : PassOf(a) = pass)

C36_SectionsKept ==
  fnPc = "returned" =>
    /\ Len(fnOut) = Len(fnIn)
    /\ \A s \in DOMAIN fnIn :
         /\ s \in DOMAIN fnOut
         /\ fnOut[s].id = fnIn[s].id
         /\ fnOut[s].title = fnIn[s].title
         /\ fnOut[s].keywords = fnIn[s].keywords
         /\ InsertedAnchors(<<fnOut[s]>>) = << >> => fnOut[s].content = fnIn[s].content

C36_Witness ==
  /\ fnPc = "returned" /\ Len(fnIn) = 3
  /\ fnOut[1] # fnIn[1]
  /\ fnIn[2].content # << >> /\ ContentHasLink(fnIn[2].content) /\ fnOut[2] = fnIn[2]
  /\ fnIn[3].content = << >> /\ fnOut[3] = fnIn[3]

\* The outline requests made for the articles of row r.
OutlineRequests(r) == Cardinality({i \in DOMAIN outlineLog : outlineLog[i].tag[1] = r})

\* The stages of the chain in which an outline, a section, an image or a
\* publish call is outstanding or about to start.
ArticleStages ==
  {"wait_outline_first", "wait_outline", "outline", "wait_write", "section", "image", "wait_publish",
   "upload", "categories", "post"}

\* C37: for no account are more outlines requested or more articles handed
\* to publish than the row's task_count, and once the batch is complete no
\* outline, writing or publish call is made any more.
C37_BoundedByTaskCount ==
  /\ [](\A r \in DOMAIN snap.csvRows :
          /\ OutlineRequests(r) <= snap.csvRows[r].task_count
          /\ Attempts(r) <= snap.csvRows[r].task_count)
  /\ [](batchProgress.isComplete =>
          /\ pc \notin ArticleStages
          /\ inflight \cap {<<"chain", "outline">>, <<"chain", "section">>,
                            <<"chain", "image">>, <<"chain", "upload">>,
                            <<"chain", "categories">>, <<"chain", "post">>} = {})
  /\ [][batchProgress.isComplete =>
          (outlineLog' = outlineLog /\ publishLog' = publishLog)]_vars

C37_Witness ==
  /\ pc = "done" /\ batchProgress.isComplete
  /\ Len(snap.csvRows) = 2
  /\ OutlineRequests(1) = 1 /\ OutlineRequests(2) = 1
  /\ Attempts(1) = 1 /\ Attempts(2) = 1
  /\ trackerLog # << >>

\* A call to a tracker has been made or is outstanding.
TrackerCalled ==
  trackerLog # << >> \/ inflight \cap {<<"chain", "clickup">>, <<"chain", "prodline">>} # {}

\* C38: no tracker is called (URL field, completion or secondary property)
\* before every article of every account has had its publish attempt, and
\* a run that a failure stopped calls no tracker at all.
C38_TrackersAfterAll ==
  /\ TrackerCalled =>
       /\ \A r \in DOMAIN snap.csvRows : Attempts(r) = snap.csvRows[r].task_count
       /\ batchProgress.isComplete
  /\ (pc = "stopped" \/ errors \cap StoppingFailures # {}) => ~TrackerCalled

C38_Witness ==
  /\ Len(trackerLog) = 1 /\ Len(snap.csvRows) = 2
  /\ Attempts(1) = 1 /\ Attempts(2) = 1
  /\ "publish" \in errors /\ Len(publishedUrlsRef) = 1

\* The website of the brief of the account of row r, where the first brief
\* names a website and the second is JSON or names none.
OwnWebsite(r) == IF r = 1 THEN SiteOf(snap.csvRows[1].account_uuid) ELSE NoWebsite

\* C39: every article of a batch is written with the website detected from
\* the brief of its own account, null when that brief is JSON or names no
\* website; the website of an earlier account is never used for an article
\* of a later one.
C39_OwnWebsite ==
  /\ pc \in ArticleStages \ {"wait_outline_first", "wait_outline"} =>
       /\ loc.websiteUrl = OwnWebsite(loc.row)
       /\ loc.art.tag[1] \in {0, loc.row}
       /\ \A i \in DOMAIN InsertedHrefs(loc.art.sections) :
            InsertedHrefs(loc.art.sections)[i][1] = OwnWebsite(loc.art.tag[1])
  /\ \A i \in DOMAIN publishLog :
       /\ publishLog[i].site = (OwnWebsite(publishLog[i].tag[1]) # NoWebsite)
       /\ publishLog[i].anchors = IF publishLog[i].tag[1] = 1 THEN 3 ELSE 0

C39_Witness ==
  /\ Len(publishLog) = 3
  /\ publishLog[1].anchors = 3 /\ publishLog[1].tag = <<1, 1>>
  /\ publishLog[3].anchors = 0 /\ publishLog[3].tag = <<2, 2>>
  /\ clientWebsite = NoWebsite

\* C40: whenever the batch is between steps the displayed list of URLs
\* equals the list kept in publishedUrlsRef: every published URL once, in
\* publish order, whichever of the publishResult effect and the update of
\* autoPublish comes first.
C40_DisplayEqualsRef ==
  batchProgress.publishedUrls = publishedUrlsRef

====
